---------------------------- MODULE Spec2Model ----------------------------
(***************************************************************************)
(* Model of ee_imagery_downloader: the nested filter configuration, its    *)
(* flattening (utils.flatten_nested_imagery_filters), the construction of  *)
(* the imagery tree (eeImageryInterface.__init__ / _loadImagery), the      *)
(* season resolution of a date query (_parse_date_query) and the           *)
(* retrieval and export operations (getImagery / exportImagery).           *)
(***************************************************************************)
EXTENDS Integers, Sequences, FiniteSets, TLC

VARIABLES
    pc,            \* position of the modelled caller
    filter_dict,   \* argument of flatten_nested_imagery_filters
    max_depth,     \* argument of flatten_nested_imagery_filters
    flat_out,      \* value returned by flatten_nested_imagery_filters
    imagery_filters, \* self.imagery_filters: the seasons, in the order of the configuration
    date_query,    \* argument of _parse_date_query, getImagery and exportImagery
    parsed,        \* outcome of _parse_date_query
    roi_name,      \* self.roi_name
    flattened,     \* self._flattened_filters
    base_colls,    \* the (season, collection) pairs a baseline collection was created for
    store,         \* the dictionaries of self.imagery and of the tree handed to the caller
    init_error,    \* the exception that ended __init__, if any
    call,          \* the arguments of the last getImagery or exportImagery call
    ret,           \* what that call returned or raised
    warned,        \* the warnings that call gave
    export_params,     \* the caller's export_params dictionary, as the last call left it
    export_collection, \* exportImagery: the collection getImagery returned
    n_images,          \* exportImagery: the size of that collection
    export_tasks,      \* exportImagery: the tasks started, each with its state
    failed_taskids,    \* monitoring loop: the tasks recorded as failed
    n_completed,       \* monitoring loop: counter of the current pass
    n_failed,          \* monitoring loop: counter of the current pass
    task_outstanding,  \* monitoring loop: the loop condition
    poll,              \* monitoring loop: the task the current pass polls next
    last_update,       \* monitoring loop: when the last progress update was printed
    mosaic_call,       \* arguments of utils.doMosaic
    mosaics,           \* what utils.doMosaic returned or raised
    choice             \* user_confirms: the line read from the user

flattenVars == <<filter_dict, max_depth, flat_out>>
matchVars == <<date_query, parsed>>
sessionVars == <<roi_name, flattened, base_colls, store, init_error>>
callVars == <<call, ret, warned>>
monitorVars == <<failed_taskids, n_completed, n_failed, task_outstanding, poll, last_update>>
exportVars == <<export_params, export_collection, n_images, export_tasks, monitorVars>>
mosaicVars == <<mosaic_call, mosaics>>
vars == <<pc, filter_dict, max_depth, flat_out, imagery_filters, date_query, parsed,
          roi_name, flattened, base_colls, store, init_error, call, ret, warned,
          export_params, export_collection, n_images, export_tasks, failed_taskids,
          n_completed, n_failed, task_outstanding, poll, last_update, mosaic_call,
          mosaics, choice>>

(***************************************************************************)
(* Bounds of the model.                                                    *)
(***************************************************************************)
\* largest number of dictionaries in a generated filter configuration
MaxNodes == 4
\* largest max_depth argument given to the flattener on its own
MaxDepthArg == 3
\* the calendar of the model: days 0..MaxDay
MaxDay == 3
\* largest number of configured seasons
MaxSeasons == 2

(***************************************************************************)
(* Configuration values.  A Python dict of the filter configuration is a   *)
(* record: has/filters say whether the key 'filters' is present and what   *)
(* it holds, kids maps every other key to its sub-dictionary.              *)
(***************************************************************************)
Keys == {"A", "B"}
\* iteration order of dict.items() over the group keys
KeyOrder == <<"A", "B">>
\* Python's None, appended to the path of a branch cut at the depth limit
NoneKey == "None"

EmptyKids == [k \in {} |-> 0]

MkDict(has, filters, kids) == [has |-> has, filters |-> filters, kids |-> kids]

FilterEW == <<[type |-> "eq", args |-> <<"instrumentMode", "EW">>]>>
FilterVV == <<[type |-> "listContains", args |-> <<"pol", "VV">>],
              [type |-> "eq", args |-> <<"instrumentMode", "IW">>]>>

\* what the key 'filters' of a generated dictionary may hold: <<present, value>>
FilterOpts == {<<FALSE, <<>>>>, <<TRUE, FilterEW>>, <<TRUE, FilterVV>>}

RECURSIVE Dicts(_), KidsOver(_, _)
\* every dictionary tree of at most n dictionaries
Dicts(n) ==
    IF n < 1 THEN {}
    ELSE { MkDict(f[1], f[2], kids) : f \in FilterOpts, kids \in KidsOver(1, n - 1) }
\* every assignment of sub-dictionaries to the keys KeyOrder[i..], using at most m dictionaries
KidsOver(i, m) ==
    IF i > Len(KeyOrder) THEN {EmptyKids}
    ELSE KidsOver(i + 1, m) \cup
         UNION { { (KeyOrder[i] :> t) @@ rest : t \in Dicts(a), rest \in KidsOver(i + 1, m - a) }
                 : a \in 1..m }

(***************************************************************************)
(* utils.flatten_nested_imagery_filters                                    *)
(***************************************************************************)
\* the keys of a dictionary in iteration order
ItemKeys(d) == SelectSeq(KeyOrder, LAMBDA k : k \in DOMAIN d.kids)

RECURSIVE flatten_nested_imagery_filters(_, _, _), FlattenChildren(_, _, _, _)

\* faulty variant: the depth check comes before the 'filters' check
FlattenDepthFirst(d, nested_keys, depth) ==
    IF depth < 1
    THEN << [nested_keys |-> Append(nested_keys, NoneKey), filters |-> <<>>] >>
    ELSE IF d.has
    THEN << [nested_keys |-> nested_keys, filters |-> d.filters] >>
    ELSE FlattenChildren(d, ItemKeys(d), nested_keys, depth)

\* faulty variant: a branch cut at the depth limit yields no entry
FlattenDropsCut(d, nested_keys, depth) ==
    IF d.has
    THEN << [nested_keys |-> nested_keys, filters |-> d.filters] >>
    ELSE IF depth < 1
    THEN << >>
    ELSE FlattenChildren(d, ItemKeys(d), nested_keys, depth)

flatten_nested_imagery_filters(d, nested_keys, depth) ==
    IF d.has
    THEN << [nested_keys |-> nested_keys, filters |-> d.filters] >>
    ELSE IF depth < 1
    THEN << [nested_keys |-> Append(nested_keys, NoneKey), filters |-> <<>>] >>
    ELSE FlattenChildren(d, ItemKeys(d), nested_keys, depth)

\* the loop over filter_dict.items(): the children's lists, one after the other
FlattenChildren(d, ks, nested_keys, depth) ==
    IF ks = <<>> THEN <<>>
    ELSE flatten_nested_imagery_filters(
             d.kids[Head(ks)], Append(nested_keys, Head(ks)), depth - 1)
         \o FlattenChildren(d, Tail(ks), nested_keys, depth)

(***************************************************************************)
(* Dates.  A date string of the configuration or of a query names a day;   *)
(* a datetime object is a point in time, midnight or noon of a day.        *)
(* strptime gives the midnight of the day a string names, strftime the day *)
(* a point in time falls on ('%Y-%m-%d' and '%Y%m%d' have no time part).   *)
(***************************************************************************)
Days == 0..MaxDay
Midnight(day) == 2 * day
Noon(day) == 2 * day + 1
Datetimes == { Midnight(d) : d \in Days } \cup { Noon(d) : d \in Days }

strptime(day) == Midnight(day)
strftime(t) == t \div 2

DateStr(day) == [kind |-> "str", day |-> day]
DateObj(t) == [kind |-> "datetime", t |-> t]
DateValues == { DateStr(d) : d \in Days } \cup { DateObj(t) : t \in Datetimes }

\* "if not isinstance(x, dt.datetime): x = dt.datetime.strptime(x, fmt)"
AsDatetime(x) == IF x.kind = "datetime" THEN x.t ELSE strptime(x.day)

Max2(a, b) == IF a >= b THEN a ELSE b
Min2(a, b) == IF a <= b THEN a ELSE b

\* date_query = {}: no date query
NoQuery == [keys |-> {}]
\* a date query with both 'start' and 'end'
FullQuery(a, b) == [keys |-> {"start", "end"}, start |-> a, end |-> b]
\* a date query that lacks 'end'
StartOnlyQuery(a) == [keys |-> {"start"}, start |-> a]
\* truth value of the dictionary date_query
Truthy(dq) == dq.keys # {}

NotParsed == [status |-> "none"]

(***************************************************************************)
(* utils.get_date_range_overlap                                            *)
(***************************************************************************)
NoOverlap == [none |-> TRUE]

\* faulty variant: ranges that share only their end point do not overlap
OverlapStrict(range1_start, range1_end, range2_start, range2_end) ==
    LET overlap_start == Max2(range1_start, range2_start)
        overlap_end == Min2(range1_end, range2_end)
    IN IF overlap_start >= overlap_end THEN NoOverlap
       ELSE [none |-> FALSE, start |-> overlap_start, end |-> overlap_end]

get_date_range_overlap(range1_start, range1_end, range2_start, range2_end) ==
    LET overlap_start == Max2(range1_start, range2_start)
        overlap_end == Min2(range1_end, range2_end)
    IN IF overlap_start > overlap_end THEN NoOverlap
       ELSE [none |-> FALSE, start |-> overlap_start, end |-> overlap_end]

(***************************************************************************)
(* eeImageryInterface._parse_date_query                                    *)
(***************************************************************************)
\* the overlap of the query [start_date, end_date] with season i
SeasonOverlap(filters, i, start_date, end_date) ==
    get_date_range_overlap(start_date, end_date,
                           strptime(filters[i].date_start), strptime(filters[i].date_end))

RECURSIVE MatchSeason(_, _, _, _)
\* the loop over self.imagery_filters.items() from season i on: it stops at the
\* first season with an overlap; 0 stands for matched_szn = None
MatchSeason(filters, i, start_date, end_date) ==
    IF i > Len(filters) THEN [matched_szn |-> 0, overlap_dates |-> NoOverlap]
    ELSE LET overlap_dates == SeasonOverlap(filters, i, start_date, end_date)
         IN IF overlap_dates.none
            THEN MatchSeason(filters, i + 1, start_date, end_date)
            ELSE [matched_szn |-> i, overlap_dates |-> overlap_dates]

\* faulty variant: a query that meets no season gets the first season and its dates
ParseDefaultSeason(filters, dq) ==
    IF ~({"start", "end"} \subseteq dq.keys) THEN [status |-> "KeyError"]
    ELSE
    LET m == MatchSeason(filters, 1, AsDatetime(dq.start), AsDatetime(dq.end))
    IN IF m.matched_szn = 0
       THEN [status |-> "ok", season |-> filters[1].name,
             start |-> filters[1].date_start, end |-> filters[1].date_end]
       ELSE [status |-> "ok", season |-> filters[m.matched_szn].name,
             start |-> strftime(m.overlap_dates.start),
             end |-> strftime(m.overlap_dates.end)]

\* a query without 'start' or 'end' fails on the first subscript (KeyError)
parse_date_query(filters, dq) ==
    IF ~({"start", "end"} \subseteq dq.keys) THEN [status |-> "KeyError"]
    ELSE
    LET start_date == AsDatetime(dq.start)
        end_date == AsDatetime(dq.end)
        m == MatchSeason(filters, 1, start_date, end_date)
    IN IF m.matched_szn = 0 THEN [status |-> "ValueError"]
       ELSE [status |-> "ok", season |-> filters[m.matched_szn].name,
             start |-> strftime(m.overlap_dates.start),
             end |-> strftime(m.overlap_dates.end)]

(***************************************************************************)
(* The imagery tree.  A node is a leaf holding an ee.ImageCollection or a  *)
(* dictionary of nodes.  An ee.ImageCollection is a proxy object that is   *)
(* never changed in place: it is its catalog source and the operations     *)
(* applied to it, in order.                                                *)
(***************************************************************************)
Leaf(coll) == [leaf |-> TRUE, coll |-> coll]
MapOf(kids) == [leaf |-> FALSE, kids |-> kids]
EmptyMap == MapOf(EmptyKids)
\* no self.imagery yet
NoTree == [leaf |-> FALSE, kids |-> EmptyKids, unset |-> TRUE]

Op(name, args) == [op |-> name, args |-> args]
Applied(coll, op) == [source |-> coll.source, ops |-> Append(coll.ops, op)]

\* ee.Filter.date(start, end)
DateFilterOp(start, end) == Op("filterDate", <<ToString(start), ToString(end)>>)
\* getattr(ee.Filter, type)(*args)
FilterOp(f) == Op("filter", <<f.type>> \o f.args)

RECURSIVE NodeAt(_, _), HasPath(_, _), ReplaceAt(_, _, _), LeafPaths(_), HasLeaf(_)
HasPath(node, path) ==
    \/ path = <<>>
    \/ /\ ~node.leaf
       /\ Head(path) \in DOMAIN node.kids
       /\ HasPath(node.kids[Head(path)], Tail(path))
NodeAt(node, path) ==
    IF path = <<>> THEN node ELSE NodeAt(node.kids[Head(path)], Tail(path))
\* node with the node at path replaced by new
ReplaceAt(node, path, new) ==
    IF path = <<>> THEN new
    ELSE MapOf((Head(path) :> ReplaceAt(node.kids[Head(path)], Tail(path), new)) @@ node.kids)
LeafPaths(node) ==
    IF node.leaf THEN {<<>>}
    ELSE UNION { { <<k>> \o p : p \in LeafPaths(node.kids[k]) } : k \in DOMAIN node.kids }
HasLeaf(node) == LeafPaths(node) # {}

(***************************************************************************)
(* config.roi_configs: one registered region with two collections.         *)
(***************************************************************************)
RegisteredRois == {"example_sanikiluaq"}
RoiArgs == {"example_sanikiluaq", "Example_Sanikiluaq", "baffin"}
\* str.lower()
Lower(name) == IF name = "Example_Sanikiluaq" THEN "example_sanikiluaq" ELSE name

\* self.ee_collections
ee_collections == ("S1" :> "COPERNICUS/S1_GRD") @@ ("S2" :> "COPERNICUS/S2")
\* iteration order of the collection keys; S3 is a key no collection is configured for
CollOrder == <<"S1", "S2", "S3">>
\* the names ee.Filter has (hasattr) among those the configurations use
KnownFilterTypes == {"eq", "lt", "listContains"}
\* default of max_depth
DefaultMaxDepth == 10

SeasonIndex(filters, name) == CHOOSE i \in DOMAIN filters : filters[i].name = name
SeasonKeys(filters) == { filters[i].name : i \in DOMAIN filters }
CollKeys(szn) == SelectSeq(CollOrder, LAMBDA c : c \in DOMAIN szn.colls)
LoadedColls == SelectSeq(CollOrder, LAMBDA c : c \in DOMAIN ee_collections)

(***************************************************************************)
(* eeImageryInterface.__init__: the verification loop                      *)
(***************************************************************************)
\* "assert hasattr(ee.Filter, f['type'])" for every filter of every entry
TypesKnown(entries) ==
    \A i \in DOMAIN entries :
        \A j \in DOMAIN entries[i].filters : entries[i].filters[j].type \in KnownFilterTypes

RECURSIVE VerifyColls(_, _), VerifySeasons(_, _)
\* the inner loop over coll_cfg.items(), for the collection keys ks still to come
VerifyColls(szn, ks) ==
    IF ks = <<>> THEN "ok"
    ELSE IF Head(ks) \notin DOMAIN ee_collections THEN "ValueError"
    ELSE IF ~TypesKnown(flatten_nested_imagery_filters(
                            szn.colls[Head(ks)], <<>>, DefaultMaxDepth))
    THEN "AssertionError"
    ELSE VerifyColls(szn, Tail(ks))
\* the outer loop over self.imagery_filters.items(), from season i on
VerifySeasons(filters, i) ==
    IF i > Len(filters) THEN "ok"
    ELSE LET v == VerifyColls(filters[i], CollKeys(filters[i]))
         IN IF v # "ok" THEN v ELSE VerifySeasons(filters, i + 1)

\* faulty variant: the filter types are not verified
VerifyKeysOnly(filters) ==
    IF \E i \in DOMAIN filters : \E c \in DOMAIN filters[i].colls : c \notin DOMAIN ee_collections
    THEN "ValueError" ELSE "ok"

verify_filters(filters) == VerifySeasons(filters, 1)

\* self._flattened_filters: {} where a season does not configure a collection
flatten_all(filters) ==
    [s \in SeasonKeys(filters) |->
        [c \in DOMAIN ee_collections |->
            LET szn == filters[SeasonIndex(filters, s)]
            IN IF c \in DOMAIN szn.colls
               THEN flatten_nested_imagery_filters(szn.colls[c], <<>>, DefaultMaxDepth)
               ELSE <<>>]]

(***************************************************************************)
(* eeImageryInterface._reset_imagery and _loadImagery                      *)
(***************************************************************************)
reset_imagery(filters) ==
    MapOf([s \in SeasonKeys(filters) |-> MapOf([c \in DOMAIN ee_collections |-> EmptyMap])])

\* the 'baseline' collection: date and roi filters, clipped to the roi
base_coll(szn, coll_key) ==
    [source |-> ee_collections[coll_key],
     ops |-> << DateFilterOp(szn.date_start, szn.date_end),
                Op("filterBounds", <<"ee_roi">>),
                Op("clip", <<"ee_roi">>) >>]

RECURSIVE SetDefaults(_, _), SetItemAt(_, _, _, _), ApplyFilters(_, _)
\* faulty variant: "imgry_ptr[k] = {}", which forgets what is under k already
SetAnew(node, keys) ==
    IF keys = <<>> THEN node
    ELSE MapOf((Head(keys) :> SetDefaults(EmptyMap, Tail(keys))) @@ node.kids)

\* "for k in imgry_keys[:-1]: imgry_ptr = imgry_ptr.setdefault(k, {})"
SetDefaults(node, keys) ==
    IF keys = <<>> THEN node
    ELSE [node EXCEPT !.kids =
             (Head(keys) :> SetDefaults(IF Head(keys) \in DOMAIN @ THEN @[Head(keys)] ELSE EmptyMap,
                                        Tail(keys))) @@ @]

\* "imgry_ptr[imgry_keys[-1]] = filtered_coll", imgry_ptr being the map the walk ended at
SetItemAt(node, path, k, v) ==
    IF path = <<>> THEN [node EXCEPT !.kids = (k :> v) @@ @]
    ELSE [node EXCEPT !.kids =
             (Head(path) :> SetItemAt(@[Head(path)], Tail(path), k, v)) @@ @]

\* "for filter_components in filters: filtered_coll = filtered_coll.filter(filt)"
ApplyFilters(coll, filters) ==
    IF filters = <<>> THEN coll
    ELSE ApplyFilters(Applied(coll, FilterOp(Head(filters))), Tail(filters))

\* faulty variant: filtered_coll is not set back to base_coll for the next entry
FilterFromPrevious(base, previous, filters) == ApplyFilters(previous, filters)

\* the collection of one flattened entry: base_coll narrowed by the entry's filters
entry_collection(base, previous, filters) == ApplyFilters(base, filters)

Front(seq) == SubSeq(seq, 1, Len(seq) - 1)
Last(seq) == seq[Len(seq)]

RECURSIVE LoadEntries(_, _, _, _, _), LoadColls(_, _, _, _), LoadSeasons(_, _, _, _)
\* the loop over nested_filters; acc is [status, imagery, base_colls], previous the
\* value filtered_coll was left with
LoadEntries(acc, imgry_keys, base, previous, entries) ==
    IF entries = <<>> \/ acc.status # "ok" THEN acc
    ELSE LET keys == imgry_keys \o Head(entries).nested_keys
             walked == SetDefaults(acc.imagery, Front(keys))
             filtered_coll == entry_collection(base, previous, Head(entries).filters)
         IN IF \E j \in DOMAIN Head(entries).filters :
                   Head(entries).filters[j].type \notin KnownFilterTypes
            THEN \* getattr(ee.Filter, type) raises
                 [acc EXCEPT !.status = "AttributeError", !.imagery = walked]
            ELSE LoadEntries(
                     [acc EXCEPT !.imagery =
                          SetItemAt(walked, Front(keys), Last(keys), Leaf(filtered_coll))],
                     imgry_keys, base, filtered_coll, Tail(entries))

\* the loop over self._flattened_filters[szn].keys()
LoadColls(acc, szn, flat, ks) ==
    IF ks = <<>> \/ acc.status # "ok" THEN acc
    ELSE LET base == base_coll(szn, Head(ks))
             made == [acc EXCEPT !.base_colls = Append(@, <<szn.name, Head(ks)>>)]
         IN LoadColls(
                LoadEntries(made, <<szn.name, Head(ks)>>, base, base, flat[szn.name][Head(ks)]),
                szn, flat, Tail(ks))

\* the loop over self.imagery_filters.keys(), from season i on
LoadSeasons(acc, filters, flat, i) ==
    IF i > Len(filters) \/ acc.status # "ok" THEN acc
    ELSE LoadSeasons(LoadColls(acc, filters[i], flat, LoadedColls), filters, flat, i + 1)

load_imagery(filters, flat) ==
    LoadSeasons([status |-> "ok", imagery |-> reset_imagery(filters), base_colls |-> <<>>],
                filters, flat, 1)

(***************************************************************************)
(* eeImageryInterface.__init__                                             *)
(***************************************************************************)
NoCall == [op |-> "none", season |-> "None", given |-> {}]
NoReturn == [kind |-> "none"]
\* a dictionary of export parameters: the keys it has, and the values of 'folder' and
\* 'crs' where it has them
Params(keys, folder, crs) == [keys |-> keys, folder |-> folder, crs |-> crs]
NoFolder == [named |-> "none"]
NoParams == Params({}, NoFolder, "none")
NoCollection == [source |-> "none", ops |-> <<>>]
NoUpdate == "unset"

\* doMosaic was not called
NoMosaicCall == [mosaic_window |-> "None"]
NoMosaics == [status |-> "none"]
MosaicIdle ==
    /\ mosaic_call = NoMosaicCall
    /\ mosaics = NoMosaics

\* input() was not called
NoChoice == "None"

SessionIdle ==
    /\ roi_name = ""
    /\ flattened = <<>>
    /\ base_colls = <<>>
    /\ store = [canon |-> NoTree, copy |-> NoTree]
    /\ init_error = "none"
    /\ call = NoCall
    /\ ret = NoReturn
    /\ warned = {}
    /\ export_params = NoParams
    /\ export_collection = NoCollection
    /\ n_images = 0
    /\ export_tasks = <<>>
    /\ failed_taskids = <<>>
    /\ n_completed = 0
    /\ n_failed = 0
    /\ task_outstanding = FALSE
    /\ poll = 0
    /\ last_update = NoUpdate
    /\ choice = NoChoice

InitFails(error) ==
    /\ pc' = "init_failed"
    /\ init_error' = error

\* a configuration without the key 'imagery_filters'
NotConfigured ==
    << [name |-> "KeyError: 'imagery_filters'", date_start |-> 0, date_end |-> 0,
        colls |-> [k \in {} |-> 0]] >>
TwoWeeks == 14
\* dt.datetime.now(), as a day, and str(now.year)
now == [day |-> MaxDay, year |-> "2026"]

\* "Default imagery filters: all in last two weeks for each collection": one season,
\* with {} for every collection key
default_imagery_filters ==
    << [name |-> now.year, date_start |-> now.day - TwoWeeks, date_end |-> now.day,
        colls |-> [c \in DOMAIN ee_collections |-> MkDict(FALSE, <<>>, EmptyKids)]] >>

\* "try: self.imagery_filters = self.config['imagery_filters'] except KeyError: ..."
self_imagery_filters(configured) ==
    IF configured = NotConfigured THEN default_imagery_filters ELSE configured

\* __init__ from the verification loop on
VerifyAndLoad(filters) ==
    IF verify_filters(filters) # "ok"
    THEN /\ InitFails(verify_filters(filters))
         /\ UNCHANGED <<flattened, base_colls, store>>
    ELSE LET flat == flatten_all(filters)
             loaded == load_imagery(filters, flat)
         IN /\ flattened' = flat
            /\ base_colls' = loaded.base_colls
            /\ store' = [store EXCEPT !.canon = loaded.imagery]
            /\ IF loaded.status = "ok"
               THEN pc' = "ready" /\ UNCHANGED init_error
               ELSE InitFails(loaded.status)

Construct(roi) ==
    /\ pc = "new"
    /\ IF Lower(roi) \notin RegisteredRois
       THEN /\ InitFails("ValueError")
            /\ UNCHANGED <<roi_name, imagery_filters, flattened, base_colls, store>>
       ELSE /\ roi_name' = Lower(roi)
            /\ imagery_filters' = self_imagery_filters(imagery_filters)
            /\ VerifyAndLoad(self_imagery_filters(imagery_filters))
    /\ UNCHANGED <<flattenVars, mosaicVars, choice, matchVars, callVars, exportVars>>

(***************************************************************************)
(* eeImageryInterface._handle_season_and_date_query_args                   *)
(***************************************************************************)
\* Python's None for the season argument
NoSeason == "None"

\* faulty variant: a season given along with a date query wins over the date query
SeasonWins(filters, season, dq) ==
    LET incomplete == Truthy(dq) /\ ~({"start", "end"} \subseteq dq.keys)
        redundant == season # NoSeason /\ Truthy(dq) /\ ~incomplete
        dq1 == IF incomplete \/ redundant THEN NoQuery ELSE dq
        unknown == season # NoSeason /\ season \notin SeasonKeys(filters)
        season2 == IF unknown THEN NoSeason ELSE season
        warnings == (IF incomplete THEN {"date_query_incomplete"} ELSE {})
                    \cup (IF redundant THEN {"season_ignored"} ELSE {})
                    \cup (IF unknown THEN {"season_not_found"} ELSE {})
    IN [status |-> IF season2 = NoSeason /\ ~Truthy(dq1) THEN "ValueError" ELSE "ok",
        season |-> season2, date_query |-> dq1, warnings |-> warnings]

handle_season_and_date_query_args(filters, season, dq) ==
    LET incomplete == Truthy(dq) /\ ~({"start", "end"} \subseteq dq.keys)
        dq1 == IF incomplete THEN NoQuery ELSE dq
        redundant == season # NoSeason /\ Truthy(dq1)
        season1 == IF redundant THEN NoSeason ELSE season
        unknown == season1 # NoSeason /\ season1 \notin SeasonKeys(filters)
        season2 == IF unknown THEN NoSeason ELSE season1
        warnings == (IF incomplete THEN {"date_query_incomplete"} ELSE {})
                    \cup (IF redundant THEN {"season_ignored"} ELSE {})
                    \cup (IF unknown THEN {"season_not_found"} ELSE {})
    IN [status |-> IF season2 = NoSeason /\ ~Truthy(dq1) THEN "ValueError" ELSE "ok",
        season |-> season2, date_query |-> dq1, warnings |-> warnings]

(***************************************************************************)
(* utils.doMosaic and the leaf case of getImagery.apply_processing         *)
(***************************************************************************)
\* no mosaic_window
NoWindow == "None"
supported_mosaic_windows == {"hour", "day", "week"}
MosaicWindows == {"hour", "day", "week", "month"}

\* doMosaic raises ValueError for a window that is not supported
MosaicRaises(mosaic_window) == mosaic_window \notin supported_mosaic_windows

doMosaic(coll, startDate, endDate, mosaic_window) ==
    Applied(coll, Op("mosaic", <<ToString(startDate), ToString(endDate), mosaic_window>>))

\* faulty variant: the collection is mosaicked before the bands are selected
ProcessMosaicFirst(coll, P) ==
    LET dated == IF P.dated THEN Applied(coll, DateFilterOp(P.query_start, P.query_end))
                 ELSE coll
        mosaicked == IF P.mosaic_window # NoWindow
                     THEN doMosaic(dated, P.date_start, P.date_end, P.mosaic_window)
                     ELSE dated
    IN IF P.bands # <<>> THEN Applied(mosaicked, Op("select", P.bands)) ELSE mosaicked

\* P: dated (a date query was given), query_start, query_end, bands, mosaic_window,
\* date_start, date_end
process_leaf(coll, P) ==
    LET dated == IF P.dated THEN Applied(coll, DateFilterOp(P.query_start, P.query_end))
                 ELSE coll
        selected == IF P.bands # <<>> THEN Applied(dated, Op("select", P.bands)) ELSE dated
    IN IF P.mosaic_window # NoWindow
       THEN doMosaic(selected, P.date_start, P.date_end, P.mosaic_window)
       ELSE selected

RECURSIVE apply_processing(_, _)

\* faulty variant: only the leaves directly below the addressed node are processed
ProcessTopLevelOnly(ptr, P) ==
    IF ptr.leaf THEN Leaf(process_leaf(ptr.coll, P))
    ELSE MapOf([child_key \in DOMAIN ptr.kids |->
                   IF ptr.kids[child_key].leaf
                   THEN Leaf(process_leaf(ptr.kids[child_key].coll, P))
                   ELSE ptr.kids[child_key]])

\* the node ptr after the walk: every child replaced by its processed result
apply_processing(ptr, P) ==
    IF ptr.leaf THEN Leaf(process_leaf(ptr.coll, P))
    ELSE MapOf([child_key \in DOMAIN ptr.kids |-> apply_processing(ptr.kids[child_key], P)])

(***************************************************************************)
(* eeImageryInterface.getImagery                                           *)
(***************************************************************************)
\* faulty variant: the canonical subtree itself is handed on, not a copy
NoCopy(st, path) == [store |-> st, obj |-> "canon", path |-> path]

\* copy.deepcopy(self.imagery[season][collection]): a new object of its own
deepcopy(st, path) ==
    [store |-> [st EXCEPT !.copy = NodeAt(st.canon, path)], obj |-> "copy", path |-> <<>>]

RECURSIVE ResolveKeys(_, _, _)
\* "for k in nested_keys: try: imgry = imgry[k] except KeyError: warn"; subscripting
\* an ee.ImageCollection is a TypeError, which is not caught.  r: status, at (the keys
\* followed so far), warnings
ResolveKeys(node, keys, r) ==
    IF keys = <<>> THEN r
    ELSE LET here == NodeAt(node, r.at)
         IN IF here.leaf THEN [r EXCEPT !.status = "TypeError"]
            ELSE IF Head(keys) \in DOMAIN here.kids
            THEN ResolveKeys(node, Tail(keys), [r EXCEPT !.at = Append(@, Head(keys))])
            ELSE ResolveKeys(node, Tail(keys),
                             [r EXCEPT !.warnings = @ \cup {"nested_key_not_found"}])

Raised(error) == [kind |-> "raise", error |-> error]
ReturnedNone == [kind |-> "None"]
\* a returned ee.ImageCollection
ReturnedLeaf(coll, season, at) ==
    [kind |-> "leaf", coll |-> coll, season |-> season, at |-> at]
\* a returned dictionary: the object it belongs to and its place in it, and what it
\* held when it was returned
ReturnedMap(obj, path, season, at, tree) ==
    [kind |-> "map", obj |-> obj, path |-> path, season |-> season, at |-> at,
     tree |-> tree]

Dropped(st) == [st EXCEPT !.copy = NoTree]

\* outcome of a call: what is returned or raised, the dictionaries afterwards, the
\* parsed date query and the warnings
Outcome(r, st, p, w) == [ret |-> r, store |-> st, parsed |-> p, warnings |-> w]

\* the arguments that say what to get and how to process it; given: the keys
\* export_params has when exportImagery is entered
Args(op, collection, nested_keys, bands, season, mosaic_window, given) ==
    [op |-> op, collection |-> collection, nested_keys |-> nested_keys, bands |-> bands,
     season |-> season, mosaic_window |-> mosaic_window, given |-> given]

\* what apply_processing closes over: date_query, query_start, query_end, bands,
\* mosaic_window, date_start, date_end
Closure(filters, a, dated, szn, p) ==
    [dated |-> dated,
     query_start |-> IF dated THEN p.start ELSE 0,
     query_end |-> IF dated THEN p.end ELSE 0,
     bands |-> a.bands,
     mosaic_window |-> a.mosaic_window,
     date_start |-> IF dated THEN p.start ELSE filters[SeasonIndex(filters, szn)].date_start,
     date_end |-> IF dated THEN p.end ELSE filters[SeasonIndex(filters, szn)].date_end]

\* "return apply_processing(imgry)": done is the processed node
ReturnProcessed(szn, p, copied, w, at, done) ==
    IF done.leaf
    THEN Outcome(ReturnedLeaf(done.coll, szn, at), Dropped(copied.store), p, w)
    ELSE Outcome(ReturnedMap(copied.obj, copied.path \o at, szn, at, done),
                 [copied.store EXCEPT ![copied.obj] = ReplaceAt(@, copied.path \o at, done)],
                 p, w)

\* faulty variant: there is no early return, and a call without date query filters
\* by the dates of the season
ReturnReprocessed(a, szn, p, copied, w, at, imgry, P) ==
    IF a.mosaic_window # NoWindow /\ MosaicRaises(a.mosaic_window) /\ HasLeaf(imgry)
    THEN Outcome(Raised("ValueError"), Dropped(copied.store), p, w)
    ELSE ReturnProcessed(szn, p, copied, w, at,
                         apply_processing(imgry, [P EXCEPT !.dated = TRUE,
                                                           !.query_start = P.date_start,
                                                           !.query_end = P.date_end]))

\* the early return when no processing is asked for, else the processing; doMosaic
\* raises at the first leaf it is called on
ReturnImagery(a, szn, p, copied, w, at, imgry, P) ==
    IF ~(P.dated \/ a.mosaic_window # NoWindow \/ a.bands # <<>>)
    THEN IF imgry.leaf
         THEN Outcome(ReturnedLeaf(imgry.coll, szn, at), Dropped(copied.store), p, w)
         ELSE Outcome(ReturnedMap(copied.obj, copied.path \o at, szn, at, imgry),
                      copied.store, p, w)
    ELSE IF a.mosaic_window # NoWindow /\ MosaicRaises(a.mosaic_window) /\ HasLeaf(imgry)
    THEN Outcome(Raised("ValueError"), Dropped(copied.store), p, w)
    ELSE ReturnProcessed(szn, p, copied, w, at, apply_processing(imgry, P))

\* after the loop over nested_keys: r is where it ended
AfterKeys(filters, a, dated, szn, p, copied, r) ==
    IF r.status # "ok"
    THEN Outcome(Raised(r.status), Dropped(copied.store), p, r.warnings)
    ELSE ReturnImagery(a, szn, p, copied, r.warnings, r.at,
                       NodeAt(copied.store[copied.obj], copied.path \o r.at),
                       Closure(filters, a, dated, szn, p))

\* after the copy was taken
AfterCopy(filters, a, dated, szn, p, copied, w) ==
    AfterKeys(filters, a, dated, szn, p, copied,
              ResolveKeys(NodeAt(copied.store[copied.obj], copied.path), a.nested_keys,
                          [status |-> "ok", at |-> <<>>, warnings |-> w]))

\* "try: imgry = copy.deepcopy(self.imagery[season][collection]) except KeyError"
FromSeason(st, filters, a, dated, szn, p, w) ==
    IF ~HasPath(st.canon, <<szn, a.collection>>)
    THEN Outcome(ReturnedNone, Dropped(st), p, w \cup {"imagery_not_loaded"})
    ELSE AfterCopy(filters, a, dated, szn, p, deepcopy(st, <<szn, a.collection>>), w)

\* "if date_query:" with the parsed date query p
AfterParse(st, filters, a, p, w) ==
    IF p.status # "ok" THEN Outcome(Raised(p.status), Dropped(st), p, w)
    ELSE FromSeason(st, filters, a, TRUE, p.season, p, w)

\* after _handle_season_and_date_query_args gave h
AfterArgs(st, filters, a, h) ==
    IF h.status # "ok" THEN Outcome(Raised(h.status), Dropped(st), NotParsed, h.warnings)
    ELSE IF Truthy(h.date_query)
    THEN AfterParse(st, filters, a, parse_date_query(filters, h.date_query), h.warnings)
    ELSE FromSeason(st, filters, a, FALSE, h.season, NotParsed, h.warnings)

get_imagery(st, filters, collection, nested_keys, bands, season, dq, mosaic_window) ==
    AfterArgs(st, filters,
              Args("getImagery", collection, nested_keys, bands, season, mosaic_window, {}),
              handle_season_and_date_query_args(filters, season, dq))

\* the call returns or raises g
Returns(g) ==
    /\ store' = g.store
    /\ ret' = g.ret
    /\ parsed' = g.parsed
    /\ warned' = g.warnings

GetImagery(collection, nested_keys, bands, season, dq, mosaic_window) ==
    /\ pc = "ready"
    /\ Returns(get_imagery(store, imagery_filters, collection, nested_keys, bands,
                           season, dq, mosaic_window))
    /\ call' = Args("getImagery", collection, nested_keys, bands, season, mosaic_window, {})
    /\ date_query' = dq
    /\ UNCHANGED <<pc, flattenVars, mosaicVars, choice, imagery_filters, roi_name, flattened, base_colls,
                   init_error, exportVars>>

(***************************************************************************)
(* The caller changes the dictionary getImagery returned: it deletes a key *)
(* or puts something of its own under a key.                               *)
(***************************************************************************)
CallersOwn == Leaf([source |-> "caller", ops |-> <<>>])

CallerMutates(k, delete) ==
    /\ pc = "ready"
    /\ ret.kind = "map"
    /\ LET node == NodeAt(store[ret.obj], ret.path)
       IN /\ k \in DOMAIN node.kids
          /\ node.kids[k] # CallersOwn
          /\ store' = [store EXCEPT ![ret.obj] =
                 ReplaceAt(@, ret.path,
                     IF delete
                     THEN MapOf([j \in DOMAIN node.kids \ {k} |-> node.kids[j]])
                     ELSE MapOf((k :> CallersOwn) @@ node.kids))]
    /\ UNCHANGED <<pc, flattenVars, mosaicVars, choice, imagery_filters, matchVars, roi_name, flattened,
                   base_colls, init_error, callVars, exportVars>>

(***************************************************************************)
(* eeImageryInterface.exportImagery, up to the prompt                      *)
(***************************************************************************)
geom_args == {"scale", "crsTransform", "dimensions"}
\* roi_configs['example_sanikiluaq']
config == [crs |-> "EPSG:32617"]
WGS84 == "EPSG:4326"

\* "Default: {roi name}/{collection name}-{season}/{Nested-Keys}", kept by its parts
DefaultFolder(roi, collection, szn_name, nested_keys) ==
    [named |-> "default", roi |-> roi, collection |-> collection, season |-> szn_name,
     nested_keys |-> nested_keys]
CallersFolder == [named |-> "my_folder"]

\* faulty variant: nothing is deleted when more than one of geom_args is provided
KeepGeomArgs(p) == p

\* the deletions made when more than one of geom_args is provided
PrioritizeGeomArgs(p) ==
    IF Cardinality(p.keys \cap geom_args) > 1
    THEN IF "dimensions" \in p.keys THEN [p EXCEPT !.keys = @ \ {"crsTransform", "scale"}]
         ELSE IF "crsTransform" \in p.keys THEN [p EXCEPT !.keys = @ \ {"scale"}]
         ELSE p
    ELSE p

DefaultCrs(p) ==
    IF "crs" \in p.keys THEN p
    ELSE [p EXCEPT !.keys = @ \cup {"crs"},
                   !.crs = IF "crs" \in DOMAIN config THEN config.crs ELSE WGS84]

\* "if 'folder' not in export_params:" with q the parsed date query, if any
FolderDefault(roi, p1, collection, nested_keys, season, dq, q, warnings) ==
    IF "folder" \in p1.keys
    THEN [status |-> "ok", params |-> p1, parsed |-> NotParsed, warnings |-> warnings]
    ELSE IF Truthy(dq) /\ q.status # "ok"
    THEN [status |-> q.status, params |-> p1, parsed |-> q, warnings |-> warnings]
    ELSE [status |-> "ok",
          params |-> [p1 EXCEPT !.keys = @ \cup {"folder"},
                                !.folder = DefaultFolder(roi, collection,
                                               IF Truthy(dq) THEN q.season ELSE season,
                                               nested_keys)],
          parsed |-> q, warnings |-> warnings]

\* the export parameters as the call leaves them, and how far the call gets with them:
\* status "ok" when getImagery is reached
prepare_export_params(filters, roi, p, collection, nested_keys, season, dq) ==
    IF p.keys \cap geom_args = {}
    THEN [status |-> "ValueError", params |-> p, parsed |-> NotParsed, warnings |-> {}]
    ELSE FolderDefault(roi, DefaultCrs(PrioritizeGeomArgs(p)), collection, nested_keys,
                       season, dq,
                       IF Truthy(dq) /\ "folder" \notin p.keys
                       THEN parse_date_query(filters, dq) ELSE NotParsed,
                       IF Cardinality(p.keys \cap geom_args) > 1 THEN {"geom_args"} ELSE {})

\* the order sorted() puts the season names in
SortedNames == <<"2020", "2021", "2022", "2026">>
\* sorted(list(self.imagery.keys()))
seasonsLoaded(canon) == SelectSeq(SortedNames, LAMBDA szn : szn \in DOMAIN canon.kids)

RECURSIVE pformat(_, _)
Elided == [leaf |-> FALSE, kids |-> EmptyKids, elided |-> TRUE]
\* pprint.PrettyPrinter(depth=...).pformat: a dictionary below the depth is "{...}"
pformat(node, depth) ==
    IF node.leaf THEN node
    ELSE IF depth = 0 THEN Elided
    ELSE MapOf([k \in DOMAIN node.kids |-> pformat(node.kids[k], depth - 1)])

\* __str__: the seasons loaded and the structure of the last of them
str(roi, canon) ==
    [roi_name |-> roi, szns |-> seasonsLoaded(canon),
     structure |-> pformat(canon.kids[Last(seasonsLoaded(canon))], 6)]

\* the AssertionError of "assert isinstance(export_collection, ee.ImageCollection)":
\* its message names collection/nested_keys and ends with self.__str__()
NotOneCollection(roi, canon, collection, nested_keys) ==
    [kind |-> "raise", error |-> "AssertionError",
     path |-> <<collection>> \o nested_keys, shown |-> str(roi, canon)]

NoTasks ==
    /\ export_tasks' = <<>>
    /\ failed_taskids' = <<>>
    /\ n_completed' = 0
    /\ n_failed' = 0
    /\ task_outstanding' = FALSE
    /\ poll' = 0
    /\ last_update' = NoUpdate

\* the call ends: its local variables are gone
Ends(result) ==
    /\ pc' = "ready"
    /\ ret' = result
    /\ export_collection' = NoCollection
    /\ n_images' = 0

\* the prompt is printed: the call waits for the answer
Prompts(coll, size) ==
    /\ pc' = "confirm"
    /\ ret' = NoReturn
    /\ export_collection' = coll
    /\ n_images' = size

\* faulty variant: the assertion is missing and whatever getImagery gave goes on to
\* the prompt
NoAssertion(e, g, sizes, failed) ==
    /\ store' = Dropped(g.store)
    /\ parsed' = g.parsed
    /\ warned' = e.warnings \cup g.warnings
    /\ IF g.ret.kind = "raise" THEN Ends(g.ret)
       ELSE \E size \in sizes :
               Prompts(IF g.ret.kind = "leaf" THEN g.ret.coll
                       ELSE [source |-> "not a collection", ops |-> <<>>], size)

\* from the call of getImagery, which gave g, to the prompt; on an empty collection
\* first() is null and the band count may fail
AfterGetImagery(e, g, sizes, failed) ==
    /\ store' = Dropped(g.store)
    /\ parsed' = g.parsed
    /\ warned' = e.warnings \cup g.warnings
    /\ IF g.ret.kind = "raise" THEN Ends(g.ret)
       ELSE IF g.ret.kind # "leaf" THEN Ends(failed)
       ELSE \E size \in sizes, first_fails \in BOOLEAN :
               IF size = 0 /\ first_fails THEN Ends(Raised("EEException"))
               ELSE ~first_fails /\ Prompts(g.ret.coll, size)

\* e: the export parameters prepared; g: what getImagery gives
Export(e, g, sizes, failed) ==
    /\ export_params' = e.params
    /\ IF e.status # "ok"
       THEN /\ Ends(Raised(e.status))
            /\ parsed' = e.parsed
            /\ warned' = e.warnings
            /\ store' = Dropped(store)
       ELSE AfterGetImagery(e, g, sizes, failed)

\* p: the export_params dictionary passed; sizes: what the collection's size may be
ExportImagery(p, collection, nested_keys, bands, season, dq, mosaic_window, sizes) ==
    /\ pc = "ready"
    /\ call' = Args("exportImagery", collection, nested_keys, bands, season, mosaic_window,
                     p.keys)
    /\ date_query' = dq
    /\ Export(prepare_export_params(imagery_filters, roi_name, p, collection, nested_keys,
                                    season, dq),
              get_imagery(store, imagery_filters, collection, nested_keys, bands,
                          season, dq, mosaic_window),
              sizes, NotOneCollection(roi_name, store.canon, collection, nested_keys))
    /\ NoTasks
    /\ UNCHANGED <<flattenVars, mosaicVars, choice, imagery_filters, roi_name, flattened, base_colls, init_error>>

(***************************************************************************)
(* utils.user_confirms, utils.exportImageCollection                        *)
(***************************************************************************)
valid_responses == [yes |-> TRUE, y |-> TRUE, ye |-> TRUE, no |-> FALSE, n |-> FALSE]
Answers == {"", "Y", "n", "maybe"}
\* str.lower()
lower(typed) == IF typed = "Y" THEN "y" ELSE typed

\* faulty variant: whatever was answered counts as yes
ConfirmsAnything(answer, default) == "True"

\* one pass through "while True": what is returned, or "loops" when the else branch
\* prints the valid responses and the loop goes round
user_confirms(answer, default) ==
    IF default # "None" /\ answer = "" THEN default
    ELSE IF answer \in DOMAIN valid_responses
    THEN (IF valid_responses[answer] THEN "True" ELSE "False")
    ELSE "loops"

\* the geometry argument a task is started with: "if dimensions, elif scale, elif crsTransform"
TaskGeometry(p) ==
    IF "dimensions" \in p.keys THEN "dimensions"
    ELSE IF "scale" \in p.keys THEN "scale"
    ELSE IF "crsTransform" \in p.keys THEN "crsTransform"
    ELSE "none"

\* a task as task.start() leaves it
StartedTask(p) ==
    [state |-> "PENDING", folder |-> p.folder, crs |-> p.crs, geometry |-> TaskGeometry(p)]

exportImageCollection(coll_size, p) == [i \in 1..coll_size |-> StartedTask(p)]

\* "choice = input().lower()", before the loop
UserAnswers(typed) ==
    /\ pc = "confirm"
    /\ pc' = "answered"
    /\ choice' = lower(typed)
    /\ UNCHANGED <<flattenVars, mosaicVars, imagery_filters, matchVars, sessionVars, callVars,
                   exportVars>>

\* one pass through the loop of user_confirms and, when it returns, exportImagery up
\* to the monitoring loop: "if not utils.user_confirms(...): return"
Confirms ==
    /\ pc \in {"answered", "prompt_loop"}
    /\ LET confirmed == user_confirms(choice, "True")
       IN IF confirmed = "loops"
          THEN /\ pc' = "prompt_loop"
               /\ UNCHANGED <<choice, ret, export_collection, n_images, export_tasks,
                              monitorVars>>
          ELSE IF confirmed = "False"
          THEN Ends(ReturnedNone) /\ NoTasks /\ choice' = NoChoice
          ELSE /\ pc' = "monitor"
               /\ choice' = NoChoice
               /\ export_tasks' = exportImageCollection(n_images, export_params)
               /\ last_update' = "exp_start-300"
               /\ task_outstanding' = TRUE
               /\ failed_taskids' = <<>>
               /\ UNCHANGED <<ret, export_collection, n_images, n_completed, n_failed, poll>>
    /\ UNCHANGED <<flattenVars, mosaicVars, imagery_filters, matchVars, sessionVars, call, warned,
                   export_params>>

(***************************************************************************)
(* exportImagery: the monitoring loop                                      *)
(***************************************************************************)
Finished == {"COMPLETED", "FAILED", "CANCELLED"}
TaskStates == {"PENDING", "RUNNING"} \cup Finished

InSeq(x, seq) == \E j \in 1..Len(seq) : seq[j] = x

\* "while task_outstanding:" with the loop body up to the for statement
BeginPass ==
    /\ pc = "monitor"
    /\ task_outstanding
    /\ pc' = "polling"
    /\ task_outstanding' = FALSE
    /\ n_completed' = 0
    /\ n_failed' = 0
    /\ poll' = 0
    /\ UNCHANGED <<flattenVars, mosaicVars, choice, imagery_filters, matchVars, sessionVars, callVars,
                   export_params, export_collection, n_images, export_tasks, failed_taskids,
                   last_update>>

\* faulty variant: only a completed task counts as done
OutstandingUnlessCompleted(t_state) == t_state # "COMPLETED"

\* "if t_state not in ['COMPLETED', 'FAILED', 'CANCELLED']"
Outstanding(t_state) == t_state \notin Finished

\* faulty variant: a failure is recorded in every pass that sees it
NewlyFailedAgain(t_state, i, failed) == t_state \in {"FAILED", "CANCELLED"}

\* "elif t_state in ['FAILED', 'CANCELLED'] and i not in failed_taskids"; the branch
\* prints "Task {i} failed." and appends i
NewlyFailed(t_state, i, failed) ==
    t_state \in {"FAILED", "CANCELLED"} /\ ~InSeq(i, failed)

\* one iteration of "for i, t in enumerate(export_tasks)"
PollTask ==
    /\ pc = "polling"
    /\ poll < Len(export_tasks)
    /\ LET i == poll
           t_state == export_tasks[i + 1].state
       IN IF Outstanding(t_state)
          THEN /\ task_outstanding' = TRUE
               /\ UNCHANGED <<n_failed, failed_taskids, n_completed>>
          ELSE IF NewlyFailed(t_state, i, failed_taskids)
          THEN /\ n_failed' = n_failed + 1
               /\ failed_taskids' = Append(failed_taskids, i)
               /\ UNCHANGED <<task_outstanding, n_completed>>
          ELSE /\ n_completed' = n_completed + 1
               /\ UNCHANGED <<task_outstanding, n_failed, failed_taskids>>
    /\ poll' = poll + 1
    /\ UNCHANGED <<pc, flattenVars, mosaicVars, choice, imagery_filters, matchVars, sessionVars, callVars,
                   export_params, export_collection, n_images, export_tasks, last_update>>

\* the end of a pass.  In the first pass the update is printed, last_update being
\* exp_start-300; in later passes it is printed when 5 minutes went by, which leaves
\* last_update a time of printing as before.
EndPass ==
    /\ pc = "polling"
    /\ poll = Len(export_tasks)
    /\ pc' = "monitor"
    /\ last_update' = "time.time()"
    /\ UNCHANGED <<flattenVars, mosaicVars, choice, imagery_filters, matchVars, sessionVars, callVars,
                   export_params, export_collection, n_images, export_tasks, failed_taskids,
                   n_completed, n_failed, task_outstanding, poll>>

\* the loop condition is false: exportImagery returns
ExportReturns ==
    /\ pc = "monitor"
    /\ ~task_outstanding
    /\ Ends(ReturnedNone)
    /\ NoTasks
    /\ UNCHANGED <<flattenVars, mosaicVars, choice, imagery_filters, matchVars, sessionVars, call, warned,
                   export_params>>

\* Earth Engine works on a task that was started
TaskProgress(i, state) ==
    /\ pc \in {"monitor", "polling"}
    /\ i \in 1..Len(export_tasks)
    /\ export_tasks[i].state \notin Finished
    /\ state # "PENDING"
    /\ state # export_tasks[i].state
    /\ export_tasks' = [export_tasks EXCEPT ![i].state = state]
    /\ UNCHANGED <<pc, flattenVars, mosaicVars, choice, imagery_filters, matchVars, sessionVars, callVars,
                   export_params, export_collection, n_images, monitorVars>>

(***************************************************************************)
(* The flattener on its own: any configuration, any depth limit.           *)
(***************************************************************************)
InitFlatten ==
    /\ pc = "flatten_call"
    /\ filter_dict \in Dicts(MaxNodes)
    /\ max_depth \in 0..MaxDepthArg
    /\ flat_out = <<>>
    /\ imagery_filters = <<>>
    /\ date_query = NoQuery
    /\ parsed = NotParsed
    /\ SessionIdle
    /\ MosaicIdle

Flatten ==
    /\ pc = "flatten_call"
    /\ flat_out' = flatten_nested_imagery_filters(filter_dict, <<>>, max_depth)
    /\ pc' = "flatten_done"
    /\ UNCHANGED <<filter_dict, max_depth, imagery_filters, date_query, parsed, sessionVars,
                   callVars, exportVars, mosaicVars, choice>>

NextFlatten == Flatten

SpecFlatten == InitFlatten /\ [][NextFlatten]_vars

(***************************************************************************)
(* The season resolution on its own: any seasons, any complete date query. *)
(***************************************************************************)
SeasonNames == <<"2022", "2020", "2021">>
NoCollections == [k \in {} |-> 0]

Season(name, date_start, date_end, colls) ==
    [name |-> name, date_start |-> date_start, date_end |-> date_end, colls |-> colls]

DateRanges == { r \in Days \X Days : r[1] <= r[2] }

\* n seasons, each with a date range of its own and no collections
SeasonLists(n) ==
    { [i \in 1..n |-> Season(SeasonNames[i], rs[i][1], rs[i][2], NoCollections)]
      : rs \in [1..n -> DateRanges] }

InitMatch ==
    /\ pc = "parse_call"
    /\ imagery_filters \in UNION { SeasonLists(n) : n \in 1..MaxSeasons }
    /\ date_query \in { FullQuery(a, b) : a \in DateValues, b \in DateValues }
    /\ parsed = NotParsed
    /\ filter_dict = MkDict(FALSE, <<>>, EmptyKids)
    /\ max_depth = 0
    /\ flat_out = <<>>
    /\ SessionIdle
    /\ MosaicIdle

ParseDateQuery ==
    /\ pc = "parse_call"
    /\ parsed' = parse_date_query(imagery_filters, date_query)
    /\ pc' = "parse_done"
    /\ UNCHANGED <<flattenVars, mosaicVars, choice, imagery_filters, date_query, sessionVars, callVars, exportVars>>

NextMatch == ParseDateQuery

SpecMatch == InitMatch /\ [][NextMatch]_vars

(***************************************************************************)
(* Construction on its own: any of a wide range of configurations.         *)
(***************************************************************************)
RECURSIVE Chain(_, _)
\* d below n nested groups "A"
Chain(n, d) == IF n = 0 THEN d ELSE MkDict(FALSE, <<>>, "A" :> Chain(n - 1, d))

FilterBogus == <<[type |-> "eq", args |-> <<"instrumentMode", "EW">>],
                 [type |-> "bogus", args |-> <<"x">>]>>

\* configurations beyond the generated ones: at and past the depth limit, and
\* with a filter type ee.Filter does not have
SpecialDicts ==
    { Chain(DefaultMaxDepth, MkDict(TRUE, FilterEW, EmptyKids)),
      Chain(DefaultMaxDepth + 1, MkDict(TRUE, FilterEW, EmptyKids)),
      MkDict(FALSE, <<>>, ("A" :> Chain(DefaultMaxDepth, MkDict(TRUE, FilterEW, EmptyKids)))
                          @@ ("B" :> MkDict(TRUE, FilterVV, EmptyKids))),
      MkDict(TRUE, FilterBogus, EmptyKids),
      MkDict(FALSE, <<>>, ("A" :> MkDict(TRUE, FilterEW, EmptyKids))
                          @@ ("B" :> MkDict(TRUE, FilterBogus, EmptyKids))) }

\* the collections a season may configure
CollConfigs ==
    { ("S1" :> a) @@ ("S2" :> b) : a \in Dicts(MaxNodes - 1) \cup SpecialDicts,
                                   b \in { MkDict(TRUE, FilterVV, EmptyKids) } }
    \cup { "S1" :> a : a \in Dicts(2) }
    \cup { ("S1" :> a) @@ ("S3" :> a) : a \in Dicts(1) }

\* the collections the seasons after the first configure
LaterConfigs ==
    { ("S1" :> a) @@ ("S2" :> MkDict(TRUE, FilterVV, EmptyKids)) : a \in Dicts(2) \cup SpecialDicts }

InitBuild ==
    /\ pc = "new"
    /\ \/ \E n \in 1..MaxSeasons :
            \E first \in CollConfigs, later \in LaterConfigs :
               imagery_filters = [i \in 1..n |->
                   Season(SeasonNames[i], i - 1, i, IF i = 1 THEN first ELSE later)]
       \/ imagery_filters = NotConfigured
    /\ date_query = NoQuery
    /\ parsed = NotParsed
    /\ filter_dict = MkDict(FALSE, <<>>, EmptyKids)
    /\ max_depth = 0
    /\ flat_out = <<>>
    /\ SessionIdle
    /\ MosaicIdle

NextBuild == \E roi \in RoiArgs : Construct(roi)

SpecBuild == InitBuild /\ [][NextBuild]_vars

(***************************************************************************)
(* The session: construction, then any sequence of calls.                  *)
(***************************************************************************)
LeafEW == MkDict(TRUE, FilterEW, EmptyKids)
LeafVV == MkDict(TRUE, FilterVV, EmptyKids)
\* grouped two levels deep, like example_S1_filters
GroupedS1 ==
    MkDict(FALSE, <<>>,
           ("A" :> MkDict(FALSE, <<>>, ("A" :> LeafEW) @@ ("B" :> LeafVV)))
           @@ ("B" :> LeafVV))
BothCollections(a, b) == ("S1" :> a) @@ ("S2" :> b)

\* the configurations of the session: two seasons that share a day, with the grouped
\* and the ungrouped example; one season with one group and nothing for S2
SessionConfigs ==
    { << Season("2022", 1, 2, BothCollections(GroupedS1, LeafVV)),
         Season("2020", 2, MaxDay, BothCollections(GroupedS1, LeafVV)) >>,
      << Season("2022", 1, MaxDay, "S1" :> MkDict(FALSE, <<>>, "A" :> LeafEW)) >> }

SeasonArgs == {NoSeason, "2020", "1999"}
CollectionArgs == {"S1", "S2"}
KeyArgs == {<<>>, <<"A">>, <<"C", "A">>, <<"B", "A">>}
BandArgs == {<<>>, <<"HH">>}
WindowArgs == {NoWindow, "day", "month"}
\* the other window sizes, tried on calls without bands and date query
OtherWindowArgs == MosaicWindows \ WindowArgs
\* day 0 is before every season, day MaxDay in the last one only
QueryDays == {0, MaxDay}
QueryArgs == {NoQuery, StartOnlyQuery(DateStr(0))}
             \cup { FullQuery(DateStr(a), DateStr(b)) : a \in QueryDays, b \in QueryDays }

Init ==
    /\ pc = "new"
    /\ imagery_filters \in SessionConfigs
    /\ date_query = NoQuery
    /\ parsed = NotParsed
    /\ filter_dict = MkDict(FALSE, <<>>, EmptyKids)
    /\ max_depth = 0
    /\ flat_out = <<>>
    /\ SessionIdle
    /\ MosaicIdle

Next ==
    \/ \E roi \in RoiArgs : Construct(roi)
    \/ \E collection \in CollectionArgs, nested_keys \in KeyArgs, bands \in BandArgs,
          season \in SeasonArgs, dq \in QueryArgs, mosaic_window \in WindowArgs :
          GetImagery(collection, nested_keys, bands, season, dq, mosaic_window)
    \/ \E collection \in CollectionArgs, nested_keys \in KeyArgs, season \in SeasonArgs,
          mosaic_window \in OtherWindowArgs :
          GetImagery(collection, nested_keys, <<>>, season, NoQuery, mosaic_window)
    \/ \E k \in Keys, delete \in BOOLEAN : CallerMutates(k, delete)

Spec == Init /\ [][Next]_vars

(***************************************************************************)
(* The session with exports.                                               *)
(***************************************************************************)
MaxImages == 2

\* a collection name that is no key of self.ee_collections
NoSuchCollection == "S3"
ExportKeyArgs == {<<>>, <<"B">>}
ExportSeasonArgs == {NoSeason, "2020"}
ExportQueryArgs == {NoQuery, StartOnlyQuery(DateStr(0)),
                    FullQuery(DateStr(0), DateStr(0)), FullQuery(DateStr(0), DateStr(MaxDay))}
\* export_params as callers write them
ParamArgs == { NoParams,
               Params({"scale", "crsTransform"}, NoFolder, "none"),
               Params({"scale", "crsTransform", "dimensions", "crs", "folder"},
                      CallersFolder, "EPSG:3413") }

InitExport ==
    /\ pc = "new"
    /\ imagery_filters \in SessionConfigs
    /\ date_query = NoQuery
    /\ parsed = NotParsed
    /\ filter_dict = MkDict(FALSE, <<>>, EmptyKids)
    /\ max_depth = 0
    /\ flat_out = <<>>
    /\ SessionIdle
    /\ MosaicIdle

NextExport ==
    \/ Construct("example_sanikiluaq")
    \/ \E collection \in CollectionArgs, nested_keys \in ExportKeyArgs,
          season \in ExportSeasonArgs, dq \in ExportQueryArgs :
          GetImagery(collection, nested_keys, <<>>, season, dq, NoWindow)
    \/ \E p \in ParamArgs \cup {export_params} :
       \E collection \in CollectionArgs, nested_keys \in ExportKeyArgs,
          season \in ExportSeasonArgs, dq \in ExportQueryArgs :
          ExportImagery(p, collection, nested_keys, <<>>, season, dq, NoWindow, 0..MaxImages)
    \/ \E season \in ExportSeasonArgs :
          ExportImagery(Params({"scale"}, NoFolder, "none"), NoSuchCollection, <<>>, <<>>,
                        season, NoQuery, NoWindow, 0..MaxImages)
    \/ \E typed \in Answers : UserAnswers(typed)
    \/ Confirms
    \/ BeginPass
    \/ PollTask
    \/ EndPass
    \/ ExportReturns
    \/ \E i \in 1..MaxImages, state \in TaskStates : TaskProgress(i, state)

SpecExport == InitExport /\ [][NextExport]_vars

(***************************************************************************)
(* One export followed through its monitoring loop.  The loop is           *)
(* sequential code: a step of it that can be taken is taken in the end.    *)
(* Nothing is assumed about how the tasks get on.                          *)
(***************************************************************************)
NextMonitor ==
    \/ Construct("example_sanikiluaq")
    \/ ExportImagery(Params({"scale"}, NoFolder, "none"), "S2", <<>>, <<>>, "2020", NoQuery,
                     NoWindow, 0..MaxImages)
    \/ \E typed \in Answers : UserAnswers(typed)
    \/ Confirms
    \/ BeginPass
    \/ PollTask
    \/ EndPass
    \/ ExportReturns
    \/ \E i \in 1..MaxImages, state \in TaskStates : TaskProgress(i, state)

LoopRuns ==
    /\ WF_vars(BeginPass)
    /\ WF_vars(PollTask)
    /\ WF_vars(EndPass)
    /\ WF_vars(ExportReturns)

SpecMonitor == InitExport /\ [][NextMonitor]_vars /\ LoopRuns

(***************************************************************************)
(* utils.doMosaic on its own, with the images and the dates spelled out.   *)
(* Time is counted in ticks; a window unit is a whole number of ticks (the *)
(* widths are scaled down: the windowing depends only on how the range and *)
(* the timestamps lie relative to the multiples of the width).  An image   *)
(* is its place in the collection handed in and its system:time_start.     *)
(***************************************************************************)
\* the last tick
MaxTick == 5
\* the most images of a collection
MaxTiles == 3
Ticks == 0..MaxTick
TicksPer == [hour |-> 1, day |-> 2, week |-> 3]

Image(id, time_start) == [id |-> id, time_start |-> time_start]
\* the collections of n images
Collections(n) == { [i \in 1..n |-> Image(i, ts[i])] : ts \in [1..n -> Ticks] }

RECURSIVE sort(_)
\* image_collection.sort('system:time_start'), ascending
Insert(im, sorted) ==
    LET before == SelectSeq(sorted, LAMBDA x : x.time_start <= im.time_start)
        after == SelectSeq(sorted, LAMBDA x : x.time_start > im.time_start)
    IN before \o <<im>> \o after
sort(coll) == IF coll = <<>> THEN <<>> ELSE Insert(Last(coll), sort(Front(coll)))

\* startDate.advance(n, mosaic_window)
advance(date, n, mosaic_window) == date + n * TicksPer[mosaic_window]
\* collection.filterDate(start, end): start inclusive, end exclusive
filterDate(coll, start, end) ==
    SelectSeq(coll, LAMBDA im : start <= im.time_start /\ im.time_start < end)
\* ee.List.sequence(0, end) of a number end >= 0 that is a / b: 0, 1, ... while <= end
sequence(a, b) == [i \in 1..(a \div b + 1) |-> i - 1]

\* the image genMosaickingFunction.mosaicCollection makes of the tiles of a window
Mosaicked(tiles_in_window) ==
    [time_start |-> tiles_in_window[1].time_start,
     tiles |-> [i \in DOMAIN tiles_in_window |-> tiles_in_window[i].id]]

mosaicCollection(sorted_collection, mosaic_window, datetime, image_list) ==
    LET tiles_in_window == filterDate(sorted_collection, datetime,
                                      advance(datetime, 1, mosaic_window))
    IN IF Len(tiles_in_window) # 0
       THEN Append(image_list, Mosaicked(tiles_in_window))
       ELSE image_list

\* faulty variant: only the windows that end within the range
WholeWindowsOnly(startDate, endDate, mosaic_window) ==
    [i \in 1..((endDate - startDate) \div TicksPer[mosaic_window]) |->
        advance(startDate, i - 1, mosaic_window)]

\* "hourly_diff = endDate.difference(startDate, mosaic_window)" and the list of the
\* window starts made of it
hourly_datetime_list(startDate, endDate, mosaic_window) ==
    LET hours == sequence(endDate - startDate, TicksPer[mosaic_window])
    IN [i \in DOMAIN hours |-> advance(startDate, hours[i], mosaic_window)]

RECURSIVE iterate(_, _, _, _)
\* hourly_datetime_list.iterate(mosaicking_func, ee.List([]))
iterate(list, sorted_collection, mosaic_window, image_list) ==
    IF list = <<>> THEN image_list
    ELSE iterate(Tail(list), sorted_collection, mosaic_window,
                 mosaicCollection(sorted_collection, mosaic_window, Head(list), image_list))

do_mosaic(collection, startDate, endDate, mosaic_window) ==
    IF MosaicRaises(mosaic_window) THEN [status |-> "ValueError"]
    ELSE [status |-> "ok",
          images |-> iterate(hourly_datetime_list(startDate, endDate, mosaic_window),
                             sort(collection), mosaic_window, <<>>)]

DoMosaic ==
    /\ pc = "mosaic_call"
    /\ mosaics' = do_mosaic(mosaic_call.collection, mosaic_call.startDate,
                            mosaic_call.endDate, mosaic_call.mosaic_window)
    /\ pc' = "mosaic_done"
    /\ UNCHANGED <<flattenVars, mosaic_call, choice, imagery_filters, matchVars,
                   sessionVars, callVars, exportVars>>

\* any collection of up to MaxTiles images over any range of dates, the images
\* before, within and after it
InitMosaic ==
    /\ pc = "mosaic_call"
    /\ \E collection \in UNION { Collections(n) : n \in 0..MaxTiles },
          startDate \in Ticks, endDate \in Ticks, mosaic_window \in MosaicWindows :
          /\ startDate <= endDate
          /\ mosaic_call = [collection |-> collection, startDate |-> startDate,
                            endDate |-> endDate, mosaic_window |-> mosaic_window]
    /\ mosaics = NoMosaics
    /\ imagery_filters = <<>>
    /\ date_query = NoQuery
    /\ parsed = NotParsed
    /\ filter_dict = MkDict(FALSE, <<>>, EmptyKids)
    /\ max_depth = 0
    /\ flat_out = <<>>
    /\ SessionIdle

NextMosaic == DoMosaic

SpecMosaic == InitMosaic /\ [][NextMosaic]_vars

(***************************************************************************)
(* Notions the properties of the flattener are stated with.                *)
(***************************************************************************)
RECURSIVE FilterPaths(_), Nesting(_), TrueLeaves(_), DictAt(_, _)

\* the paths of all dictionaries of d that hold the key 'filters'
FilterPaths(d) ==
    (IF d.has THEN {<<>>} ELSE {}) \cup
    UNION { { <<k>> \o p : p \in FilterPaths(d.kids[k]) } : k \in DOMAIN d.kids }

\* the dictionary of d at path p
DictAt(d, p) == IF p = <<>> THEN d ELSE DictAt(d.kids[Head(p)], Tail(p))

\* no dictionary holds 'filters' beside group keys
TrueLeaves(d) ==
    /\ d.has => DOMAIN d.kids = {}
    /\ \A k \in DOMAIN d.kids : TrueLeaves(d.kids[k])

SetMax(S) == CHOOSE x \in S : \A y \in S : y <= x

\* levels of group dictionaries above the deepest point of d
Nesting(d) ==
    IF d.has THEN 0
    ELSE IF DOMAIN d.kids = {} THEN 1
    ELSE 1 + SetMax({ Nesting(d.kids[k]) : k \in DOMAIN d.kids })

Range(s) == { s[i] : i \in DOMAIN s }

\* the paths of d that the walk can reach: no dictionary above them holds 'filters'
RECURSIVE OpenPaths(_)
OpenPaths(d) ==
    {<<>>} \cup
    (IF d.has THEN {}
     ELSE UNION { { <<k>> \o p : p \in OpenPaths(d.kids[k]) } : k \in DOMAIN d.kids })

\* the branches of d that are still without 'filters' when the limit m is used up
CutPaths(d, m) == { p \in OpenPaths(d) : Len(p) = m /\ ~DictAt(d, p).has }

\* the entry a FilterSet at path p of d has to yield
EntryOf(d, p) == [nested_keys |-> p, filters |-> DictAt(d, p).filters]

\* the degenerate entry of a branch cut at path p
CutEntry(p) == [nested_keys |-> Append(p, NoneKey), filters |-> <<>>]

(***************************************************************************)
(* C1: for a configuration whose 'filters' keys sit at true leaves and     *)
(* which is nested no deeper than max_depth, the flattener returns exactly *)
(* one entry per FilterSet of the configuration, the entry holding the     *)
(* path of group keys to that FilterSet and the FilterSet itself, and no   *)
(* path occurs twice.                                                      *)
(***************************************************************************)
C1_FlattenCoversLeaves ==
    (/\ pc = "flatten_done"
     /\ TrueLeaves(filter_dict)
     /\ Nesting(filter_dict) <= max_depth)
    => /\ Range(flat_out) = { EntryOf(filter_dict, p) : p \in FilterPaths(filter_dict) }
       /\ Len(flat_out) = Cardinality(FilterPaths(filter_dict))
       /\ \A i, j \in DOMAIN flat_out :
              flat_out[i].nested_keys = flat_out[j].nested_keys => i = j

\* a configuration with two FilterSets, one of them two groups down, right at the limit
C1_Witness ==
    /\ pc = "flatten_done"
    /\ TrueLeaves(filter_dict)
    /\ Nesting(filter_dict) = max_depth
    /\ Len(flat_out) >= 2
    /\ \E i \in DOMAIN flat_out : Len(flat_out[i].nested_keys) = 2
    /\ \E i, j \in DOMAIN flat_out : flat_out[i].filters # flat_out[j].filters

(***************************************************************************)
(* C9: when some branch of the configuration is still without 'filters'    *)
(* at the depth limit, the flattener returns, for each such branch, one    *)
(* entry whose path is the path cut at the limit followed by None and      *)
(* whose filters are empty, and flattens the branches that reach 'filters' *)
(* within the limit as usual.                                              *)
(***************************************************************************)
C9_DepthLimitEntries ==
    (pc = "flatten_done" /\ CutPaths(filter_dict, max_depth) # {})
    => LET cut == CutPaths(filter_dict, max_depth)
           reached == { p \in OpenPaths(filter_dict) :
                            Len(p) <= max_depth /\ DictAt(filter_dict, p).has }
       IN /\ Range(flat_out) = { CutEntry(p) : p \in cut }
                                \cup { EntryOf(filter_dict, p) : p \in reached }
          /\ Len(flat_out) = Cardinality(cut) + Cardinality(reached)

\* one branch cut at the limit beside a branch that reached its FilterSet
C9_Witness ==
    /\ pc = "flatten_done"
    /\ max_depth >= 1
    /\ Cardinality(CutPaths(filter_dict, max_depth)) = 1
    /\ \E i \in DOMAIN flat_out :
           /\ Len(flat_out[i].nested_keys) = max_depth + 1
           /\ flat_out[i].nested_keys[max_depth + 1] = NoneKey
    /\ \E i \in DOMAIN flat_out : flat_out[i].filters # <<>>

(***************************************************************************)
(* C3: _parse_date_query returns the first season, in the order of the     *)
(* configuration, whose range meets the query (largest start <= smallest   *)
(* end, so sharing a single day is enough), also when later seasons meet   *)
(* it too, and returns as bounds the larger of the two starts and the      *)
(* smaller of the two ends, written as dates.                              *)
(***************************************************************************)
QueryStart == AsDatetime(date_query.start)
QueryEnd == AsDatetime(date_query.end)
SeasonStart(i) == Midnight(imagery_filters[i].date_start)
SeasonEnd(i) == Midnight(imagery_filters[i].date_end)
Meets(i) == Max2(QueryStart, SeasonStart(i)) <= Min2(QueryEnd, SeasonEnd(i))
FirstMeeting(i) == Meets(i) /\ \A j \in 1..(i - 1) : ~Meets(j)

C3_FirstOverlappingSeason ==
    pc = "parse_done" =>
        \A i \in DOMAIN imagery_filters :
            FirstMeeting(i) =>
                /\ parsed.status = "ok"
                /\ parsed.season = imagery_filters[i].name
                /\ parsed.start = strftime(Max2(QueryStart, SeasonStart(i)))
                /\ parsed.end = strftime(Min2(QueryEnd, SeasonEnd(i)))
                /\ (date_query.start.kind = "str" /\ date_query.end.kind = "str")
                       => /\ Midnight(parsed.start) = Max2(QueryStart, SeasonStart(i))
                          /\ Midnight(parsed.end) = Min2(QueryEnd, SeasonEnd(i))

\* two seasons meet the query; the first is returned, the query start is
\* clipped to the season's start and the overlap is a single day
C3_Witness ==
    /\ pc = "parse_done"
    /\ Len(imagery_filters) >= 2
    /\ Meets(1) /\ Meets(2)
    /\ parsed.status = "ok"
    /\ parsed.season = imagery_filters[1].name
    /\ date_query.start.kind = "str"
    /\ date_query.start.day < imagery_filters[1].date_start
    /\ parsed.start = imagery_filters[1].date_start
    /\ parsed.start = parsed.end

(***************************************************************************)
(* Notions the properties of the built tree are stated with.               *)
(***************************************************************************)
Canon == store.canon
\* the configuration of collection c in the season named s
ConfigOf(s, c) == imagery_filters[SeasonIndex(imagery_filters, s)].colls[c]
\* the (season, collection) pairs that have a configuration and are loaded
ConfiguredPairs ==
    { sc \in SeasonKeys(imagery_filters) \X DOMAIN ee_collections :
          sc[2] \in DOMAIN imagery_filters[SeasonIndex(imagery_filters, sc[1])].colls }

(***************************************************************************)
(* C2, as claimed: for every season and collection whose configuration has *)
(* 'filters' only at true leaves, the tree built under                     *)
(* imagery[season][collection] has exactly the leaf paths of the           *)
(* configuration, and a FilterSet at the top level makes                   *)
(* imagery[season][collection] itself the leaf.                            *)
(***************************************************************************)
SameLeafPaths(sc) ==
    /\ HasPath(Canon, sc)
    /\ LeafPaths(NodeAt(Canon, sc)) = FilterPaths(ConfigOf(sc[1], sc[2]))
    /\ ConfigOf(sc[1], sc[2]).has => NodeAt(Canon, sc).leaf

BaselineOps(s) ==
    LET szn == imagery_filters[SeasonIndex(imagery_filters, s)]
    IN << Op("filterDate", <<ToString(szn.date_start), ToString(szn.date_end)>>),
          Op("filterBounds", <<"ee_roi">>),
          Op("clip", <<"ee_roi">>) >>

C8_LeafIsBaselinePlusOwnFilters ==
    pc = "ready" =>
        /\ \A s \in SeasonKeys(imagery_filters) : \A c \in DOMAIN ee_collections :
              /\ \A i \in DOMAIN flattened[s][c] :
                    LET e == flattened[s][c][i]
                        path == <<s, c>> \o e.nested_keys
                    IN /\ HasPath(Canon, path)
                       /\ NodeAt(Canon, path).leaf
                       /\ NodeAt(Canon, path).coll.source = ee_collections[c]
                       /\ NodeAt(Canon, path).coll.ops =
                              BaselineOps(s) \o
                              [j \in 1..Len(e.filters) |->
                                  Op("filter", <<e.filters[j].type>> \o e.filters[j].args)]
              /\ LeafPaths(NodeAt(Canon, <<s, c>>)) =
                     { flattened[s][c][i].nested_keys : i \in DOMAIN flattened[s][c] }
        /\ Len(base_colls) = Cardinality(SeasonKeys(imagery_filters) \X DOMAIN ee_collections)
        /\ Range(base_colls) = SeasonKeys(imagery_filters) \X DOMAIN ee_collections

\* two sibling entries with different non-empty filters under one collection
C8_Witness ==
    /\ pc = "ready"
    /\ \E s \in SeasonKeys(imagery_filters) : \E c \in DOMAIN ee_collections :
          \E i, j \in DOMAIN flattened[s][c] :
              /\ i < j
              /\ flattened[s][c][i].filters # <<>>
              /\ Len(flattened[s][c][j].filters) = 2
              /\ flattened[s][c][i].filters # flattened[s][c][j].filters

(***************************************************************************)
(* C10: when __init__ ends with an error of the configuration (region not  *)
(* registered, unknown key in imagery_filters, filter type that ee.Filter  *)
(* does not have), no imagery tree exists and no catalog collection was    *)
(* created; and a tree that was built holds no filter of an unknown type,  *)
(* so that no unknown type is left to be met at retrieval.                 *)
(***************************************************************************)
RECURSIVE LeafColls(_)
LeafColls(node) ==
    IF node.leaf THEN {node.coll}
    ELSE UNION { LeafColls(node.kids[k]) : k \in DOMAIN node.kids }

C10_NoTreeOnConfigurationError ==
    /\ pc = "init_failed" =>
          /\ init_error \in {"ValueError", "AssertionError"}
          /\ Canon = NoTree
          /\ base_colls = <<>>
    /\ pc = "ready" =>
          \A coll \in LeafColls(Canon) : \A i \in DOMAIN coll.ops :
              coll.ops[i].op = "filter" => coll.ops[i].args[1] \in KnownFilterTypes

\* the unknown filter type sits in the second season: the first season was verified
\* and still nothing was loaded
C10_Witness ==
    /\ pc = "init_failed"
    /\ init_error = "AssertionError"
    /\ roi_name = "example_sanikiluaq"
    /\ Len(imagery_filters) = 2
    /\ verify_filters(SubSeq(imagery_filters, 1, 1)) = "ok"
    /\ Canon = NoTree

(***************************************************************************)
(* Notions the properties of retrieval are stated with.                    *)
(***************************************************************************)
CompleteQuery == {"start", "end"} \subseteq date_query.keys
\* the call came back with a collection or a dictionary
Returned == call.op = "getImagery" /\ ret.kind \in {"leaf", "map"}
\* what came back, as a node
ReturnedNode == IF ret.kind = "leaf" THEN Leaf(ret.coll) ELSE ret.tree
\* the canonical node the call addressed
Addressed == NodeAt(Canon, <<ret.season, call.collection>> \o ret.at)
\* the operations a collection has beyond those of the collection it was made from
AddedOps(coll, from) == SubSeq(coll.ops, Len(from.ops) + 1, Len(coll.ops))
Extends(coll, from) ==
    /\ coll.source = from.source
    /\ Len(coll.ops) >= Len(from.ops)
    /\ SubSeq(coll.ops, 1, Len(from.ops)) = from.ops
\* the date range the mosaic windows span: the parsed query's, else the season's
WindowStart ==
    IF CompleteQuery THEN parsed.start
    ELSE imagery_filters[SeasonIndex(imagery_filters, ret.season)].date_start
WindowEnd ==
    IF CompleteQuery THEN parsed.end
    ELSE imagery_filters[SeasonIndex(imagery_filters, ret.season)].date_end
\* the operations the call asked for, in the order date filter, bands, mosaic
RequestedOps ==
    (IF CompleteQuery
     THEN << Op("filterDate", <<ToString(parsed.start), ToString(parsed.end)>>) >>
     ELSE <<>>)
    \o (IF call.bands # <<>> THEN << Op("select", call.bands) >> ELSE <<>>)
    \o (IF call.mosaic_window # NoWindow
        THEN << Op("mosaic", <<ToString(WindowStart), ToString(WindowEnd),
                               call.mosaic_window>>) >>
        ELSE <<>>)

RECURSIVE SameShape(_, _)
\* the same key set at every level, leaves in the same places
SameShape(a, b) ==
    /\ a.leaf = b.leaf
    /\ ~a.leaf => /\ DOMAIN a.kids = DOMAIN b.kids
                  /\ \A k \in DOMAIN a.kids : SameShape(a.kids[k], b.kids[k])

\* how often the operation named n is among ops
Times(n, ops) == Cardinality({ i \in DOMAIN ops : ops[i].op = n })

(***************************************************************************)
(* C4: a call of getImagery or exportImagery whose date query has 'start'  *)
(* and 'end' and meets no configured season ends with an error (a          *)
(* ValueError): nothing is returned, no season is resolved in place of the *)
(* missing one, and no export task was started.                            *)
(***************************************************************************)
C4_NoOverlapFails ==
    (call.op # "none" /\ CompleteQuery /\ \A i \in DOMAIN imagery_filters : ~Meets(i)) =>
        /\ pc = "ready"
        /\ ret = Raised("ValueError")
        /\ parsed.status # "ok"
        /\ store.copy = NoTree
        /\ export_collection = NoCollection
        /\ export_tasks = <<>>

\* exportImagery with valid export parameters and a folder of the caller's, so that the
\* date query is first parsed inside getImagery; the season given is configured
C4_Witness ==
    /\ call.op = "exportImagery"
    /\ call.season \in SeasonKeys(imagery_filters)
    /\ CompleteQuery
    /\ \A i \in DOMAIN imagery_filters : ~Meets(i)
    /\ export_params.keys \cap geom_args # {}
    /\ export_params.folder = CallersFolder
    /\ ret = Raised("ValueError")
    /\ parsed.status = "ValueError"

(***************************************************************************)
(* C5: once built, self.imagery stays the tree that construction built     *)
(* from the configuration, whatever calls of getImagery were made and      *)
(* whatever the caller did to the dictionaries they returned.              *)
(***************************************************************************)
C5_CanonicalTreeUnchanged ==
    pc = "ready" =>
        Canon = load_imagery(imagery_filters, flatten_all(imagery_filters)).imagery

\* a processed dictionary was returned and the caller has since changed it
C5_Witness ==
    /\ Returned
    /\ ret.kind = "map"
    /\ call.mosaic_window # NoWindow
    /\ CompleteQuery
    /\ NodeAt(store[ret.obj], ret.path) # ret.tree
    /\ \E k \in DOMAIN ret.tree.kids : k \notin DOMAIN NodeAt(store[ret.obj], ret.path).kids
    /\ Canon = load_imagery(imagery_filters, flatten_all(imagery_filters)).imagery

(***************************************************************************)
(* C6: every collection getImagery returns, alone or in a dictionary, is   *)
(* the canonical collection of its place followed by the operations asked  *)
(* for, each once and only if asked for, in the order date filter, band    *)
(* selection, mosaic: the mosaic is made of the collection already         *)
(* narrowed by date and bands.                                             *)
(***************************************************************************)
C6_FixedProcessingOrder ==
    Returned =>
        \A path \in LeafPaths(ReturnedNode) :
            /\ HasPath(Addressed, path)
            /\ NodeAt(Addressed, path).leaf
            /\ Extends(NodeAt(ReturnedNode, path).coll, NodeAt(Addressed, path).coll)
            /\ AddedOps(NodeAt(ReturnedNode, path).coll, NodeAt(Addressed, path).coll)
                   = RequestedOps

\* all three operations were asked for and a dictionary of collections came back
C6_Witness ==
    /\ Returned
    /\ ret.kind = "map"
    /\ Len(RequestedOps) = 3
    /\ RequestedOps[3].op = "mosaic"
    /\ LeafPaths(ReturnedNode) # {}

(***************************************************************************)
(* C7: when getImagery processes a node that is a dictionary, what it      *)
(* returns has the key sets of the canonical node at every level, and      *)
(* every collection below it, at any depth, went through each operation    *)
(* asked for exactly once.                                                 *)
(***************************************************************************)
C7_ProcessedTreeKeepsShape ==
    (Returned /\ ret.kind = "map" /\ RequestedOps # <<>>) =>
        /\ SameShape(ret.tree, Addressed)
        /\ \A path \in LeafPaths(Addressed) :
              LET added == AddedOps(NodeAt(ret.tree, path).coll, NodeAt(Addressed, path).coll)
              IN \A n \in {"filterDate", "select", "mosaic"} :
                    Times(n, added) = Times(n, RequestedOps)

\* the dictionary returned holds a collection next to a dictionary of two collections
C7_Witness ==
    /\ Returned
    /\ ret.kind = "map"
    /\ call.bands # <<>>
    /\ Cardinality(LeafPaths(ret.tree)) = 3
    /\ \E path \in LeafPaths(ret.tree) : Len(path) = 2
    /\ \E path \in LeafPaths(ret.tree) : Len(path) = 1

(***************************************************************************)
(* Notions the properties of the calls are stated with.                    *)
(***************************************************************************)
SomeSeasonMeets == \E i \in DOMAIN imagery_filters : Meets(i)
\* the name of the first configured season the date query meets
MatchedSeason ==
    imagery_filters[CHOOSE i \in DOMAIN imagery_filters : FirstMeeting(i)].name
\* exportImagery got past the check of the geometry parameters
PastGeometryCheck == call.op = "exportImagery" => call.given \cap geom_args # {}
\* a collection of the tree of season szn, under the collection asked for, that coll
\* was made from
TakenFrom(coll, szn) ==
    /\ HasPath(Canon, <<szn, call.collection>>)
    /\ \E path \in LeafPaths(NodeAt(Canon, <<szn, call.collection>>)) :
          Extends(coll, NodeAt(Canon, <<szn, call.collection>> \o path).coll)

(***************************************************************************)
(* C11: a call of getImagery or exportImagery with a season name and a     *)
(* date query that has 'start' and 'end' and meets a configured season     *)
(* warns that the season is ignored and takes the season from the date     *)
(* query: the first season the query meets is the one the tree is read     *)
(* under and, where exportImagery composes the folder name, the one in the *)
(* folder name.                                                            *)
(***************************************************************************)
C11_DateQueryWinsOverSeason ==
    (/\ call.op # "none"
     /\ call.season # NoSeason
     /\ CompleteQuery
     /\ SomeSeasonMeets
     /\ PastGeometryCheck) =>
        /\ "season_ignored" \in warned
        /\ parsed.status = "ok"
        /\ parsed.season = MatchedSeason
        /\ ret.kind \in {"leaf", "map"} => ret.season = MatchedSeason
        /\ export_collection # NoCollection => TakenFrom(export_collection, MatchedSeason)
        /\ (call.op = "exportImagery" /\ "folder" \notin call.given) =>
              export_params.folder =
                  DefaultFolder(roi_name, call.collection, MatchedSeason, call.nested_keys)

\* an export under way: the season given is configured and is not the one the date
\* query meets first
C11_Witness ==
    /\ call.op = "exportImagery"
    /\ call.season \in SeasonKeys(imagery_filters)
    /\ CompleteQuery
    /\ SomeSeasonMeets
    /\ MatchedSeason # call.season
    /\ "folder" \notin call.given
    /\ pc = "monitor"
    /\ Len(export_tasks) > 0
    /\ export_tasks[1].folder.season = MatchedSeason
    /\ TakenFrom(export_collection, MatchedSeason)

(***************************************************************************)
(* C12: a call of getImagery or exportImagery with a configured season and *)
(* a date query that lacks 'start' or 'end' warns, drops the date query    *)
(* and goes on with the season given; no KeyError comes of the missing     *)
(* field.                                                                  *)
(***************************************************************************)
C12_IncompleteQueryIsDiscarded ==
    (/\ call.op # "none"
     /\ call.season \in SeasonKeys(imagery_filters)
     /\ Truthy(date_query)
     /\ ~CompleteQuery
     /\ PastGeometryCheck) =>
        /\ "date_query_incomplete" \in warned
        /\ ~(ret.kind = "raise" /\ ret.error = "KeyError")
        /\ parsed = NotParsed
        /\ ret.kind \in {"leaf", "map"} => ret.season = call.season
        /\ export_collection # NoCollection => TakenFrom(export_collection, call.season)

(***************************************************************************)
(* Notions of the node a call addresses.                                   *)
(***************************************************************************)
\* the season the call reads the tree under, where there is one
SeasonResolves ==
    IF CompleteQuery THEN SomeSeasonMeets ELSE call.season \in SeasonKeys(imagery_filters)
ResolvedSeason == IF CompleteQuery THEN MatchedSeason ELSE call.season
Loaded == SeasonResolves /\ HasPath(Canon, <<ResolvedSeason, call.collection>>)
\* the canonical node of the season and collection
TopNode == NodeAt(Canon, <<ResolvedSeason, call.collection>>)

RECURSIVE Follow(_, _)
\* the keys of keys that resolve, each at the node the ones before it led to
Follow(node, keys) ==
    IF keys = <<>> THEN <<>>
    ELSE IF ~node.leaf /\ Head(keys) \in DOMAIN node.kids
    THEN <<Head(keys)>> \o Follow(node.kids[Head(keys)], Tail(keys))
    ELSE Follow(node, Tail(keys))

(***************************************************************************)
(* C13: in getImagery a nested key that does not resolve at the node       *)
(* reached so far, be it a dictionary without the key or a collection,     *)
(* brings a warning and is passed over: the call returns, and returns the  *)
(* node that the keys that did resolve lead to.                            *)
(***************************************************************************)
C13_UnresolvedKeyWarnsAndContinues ==
    (/\ call.op = "getImagery"
     /\ Loaded
     /\ call.mosaic_window \in {NoWindow} \cup supported_mosaic_windows) =>
        /\ Returned
        /\ ret.at = Follow(TopNode, call.nested_keys)
        /\ Len(ret.at) < Len(call.nested_keys) => "nested_key_not_found" \in warned
        /\ SameShape(ReturnedNode, NodeAt(TopNode, ret.at))

(***************************************************************************)
(* C14: when what getImagery resolves for exportImagery is not one         *)
(* collection (a dictionary of groups, or nothing loaded under the season  *)
(* and collection), the call ends with an error: no prompt is shown and no *)
(* export task is started.  Where getImagery was reached, the error is the *)
(* AssertionError whose message names collection/nested_keys and shows the *)
(* seasons loaded and the structure loaded for a season.                   *)
(***************************************************************************)
\* the node the call addresses is not one collection
NotALeaf ==
    /\ SeasonResolves
    /\ HasPath(Canon, <<ResolvedSeason, call.collection>>) =>
          ~NodeAt(TopNode, Follow(TopNode, call.nested_keys)).leaf
\* the default folder name is composed without an error
FolderNamed ==
    \/ "folder" \in call.given
    \/ ~Truthy(date_query)
    \/ CompleteQuery

C14_NoExportOfNonLeaf ==
    (call.op = "exportImagery" /\ PastGeometryCheck /\ NotALeaf) =>
        /\ pc = "ready"
        /\ ret.kind = "raise"
        /\ export_collection = NoCollection
        /\ export_tasks = <<>>
        /\ FolderNamed =>
              /\ ret.error = "AssertionError"
              /\ ret.path = <<call.collection>> \o call.nested_keys
              /\ Range(ret.shown.szns) = DOMAIN Canon.kids
              /\ \E szn \in DOMAIN Canon.kids : ret.shown.structure = Canon.kids[szn]

\* the collection asked for is grouped and no nested key was given
C14_Witness ==
    /\ call.op = "exportImagery"
    /\ PastGeometryCheck
    /\ NotALeaf
    /\ HasPath(Canon, <<ResolvedSeason, call.collection>>)
    /\ call.nested_keys = <<>>
    /\ Cardinality(LeafPaths(TopNode)) = 3
    /\ ret.kind = "raise"
    /\ ret.error = "AssertionError"
    /\ Len(ret.shown.szns) = 2

(***************************************************************************)
(* C15: while exportImagery monitors its tasks, a task found FAILED or     *)
(* CANCELLED is recorded (and its "Task i failed." line printed) once and  *)
(* only such tasks are recorded; the monitoring ends only when no task is  *)
(* PENDING or RUNNING any more, whatever failed before; and when it ends   *)
(* the tasks recorded are exactly the tasks that ended FAILED or CANCELLED.*)
(***************************************************************************)
Monitoring == pc \in {"monitor", "polling"}
TaskIds == 0 .. Len(export_tasks) - 1
FailedTasks == { i \in TaskIds : export_tasks[i + 1].state \in {"FAILED", "CANCELLED"} }
\* the loop condition is about to be found false
MonitoringEnds == pc = "monitor" /\ ~task_outstanding

C16_EveryWindowSizeAccepted ==
    (/\ call.op = "getImagery"
     /\ Loaded
     /\ call.mosaic_window \in MosaicWindows
     /\ ret # Raised("TypeError")) =>
        /\ Returned
        /\ \A coll \in LeafColls(ReturnedNode) :
              /\ Times("mosaic", coll.ops) = 1
              /\ Last(coll.ops).op = "mosaic"
              /\ Last(coll.ops).args[3] = call.mosaic_window

(***************************************************************************)
(* C17: a getImagery call without date query (or with one that was         *)
(* discarded), without bands and without mosaic window, returns what the   *)
(* canonical tree holds at the node the call addresses: the same keys at   *)
(* every level and at every leaf the collection stored at construction;    *)
(* and the same call made again returns an equal tree.                     *)
(***************************************************************************)
NoProcessing ==
    /\ Returned
    /\ ~CompleteQuery
    /\ call.bands = <<>>
    /\ call.mosaic_window = NoWindow

C17_NoOpReturnsStoredTree ==
    /\ [](NoProcessing =>
             /\ SameShape(ReturnedNode, Addressed)
             /\ ReturnedNode = NodeAt(TopNode, Follow(TopNode, call.nested_keys)))
    /\ [][(NoProcessing /\ NoProcessing' /\ call' = call /\ date_query' = date_query) =>
             ReturnedNode' = ReturnedNode]_vars

\* a grouped collection came back whole; it has as many collections as the season
\* configures for it
C17_Witness ==
    /\ NoProcessing
    /\ call.nested_keys = <<>>
    /\ ret.kind = "map"
    /\ Cardinality(LeafPaths(ReturnedNode)) = 3
    /\ LeafColls(ReturnedNode) = LeafColls(TopNode)

(***************************************************************************)
(* C18: doMosaic over [startDate, endDate] with a supported window unit:   *)
(* the windows start at startDate + k units for every k >= 0 that does not *)
(* lead past endDate, so the last one may reach beyond endDate (the        *)
(* partial trailing window).  Every image stamped within the range is in   *)
(* exactly one output image; there is exactly one output image for each    *)
(* window that holds an image, made of all the images of that window and   *)
(* stamped as the earliest of them, and none for a window without images;  *)
(* the output images are in the order of their windows.                    *)
(***************************************************************************)
MosaicDone == pc = "mosaic_done" /\ mosaics.status = "ok"
Width == TicksPer[mosaic_call.mosaic_window]
\* the windows of the range, by number
Windows == { k \in Ticks : mosaic_call.startDate + k * Width <= mosaic_call.endDate }
\* the images of the collection whose timestamp lies in window k
InWindow(k) ==
    { i \in DOMAIN mosaic_call.collection :
         LET t == mosaic_call.collection[i].time_start
         IN /\ mosaic_call.startDate + k * Width <= t
            /\ t < mosaic_call.startDate + (k + 1) * Width }
NonEmptyWindows == { k \in Windows : InWindow(k) # {} }
InRange ==
    { i \in DOMAIN mosaic_call.collection :
         /\ mosaic_call.startDate <= mosaic_call.collection[i].time_start
         /\ mosaic_call.collection[i].time_start <= mosaic_call.endDate }
\* the output images that hold image i
Holding(i) == { m \in DOMAIN mosaics.images : InSeq(i, mosaics.images[m].tiles) }
\* the number of the window the m-th output image was made for
WindowOfOutput(m) == (mosaics.images[m].time_start - mosaic_call.startDate) \div Width

C18_OneMosaicPerNonEmptyWindow ==
    MosaicDone =>
        /\ \A i \in InRange : Cardinality(Holding(i)) = 1
        /\ Len(mosaics.images) = Cardinality(NonEmptyWindows)
        /\ \A m \in DOMAIN mosaics.images :
              /\ WindowOfOutput(m) \in NonEmptyWindows
              /\ Range(mosaics.images[m].tiles) = InWindow(WindowOfOutput(m))
              /\ Len(mosaics.images[m].tiles) = Cardinality(InWindow(WindowOfOutput(m)))
              /\ \A i \in InWindow(WindowOfOutput(m)) :
                    mosaics.images[m].time_start <= mosaic_call.collection[i].time_start
        /\ \A m, n \in DOMAIN mosaics.images :
              m < n => WindowOfOutput(m) < WindowOfOutput(n)

\* three windows of two ticks over a range of five: the first holds two images, the
\* second none, and the third, which reaches beyond the range, one
C18_Witness ==
    /\ MosaicDone
    /\ mosaic_call.mosaic_window = "day"
    /\ mosaic_call.startDate = 0
    /\ mosaic_call.endDate = 5
    /\ Windows = {0, 1, 2}
    /\ NonEmptyWindows = {0, 2}
    /\ Cardinality(InWindow(0)) = 2
    /\ mosaic_call.collection[3].time_start = 5
    /\ Len(mosaics.images) = 2
    /\ mosaics.images[2].tiles = <<3>>

(***************************************************************************)
(* C19: an exportImagery call whose export_params holds none of scale,     *)
(* crsTransform and dimensions ends with ValueError and starts no task;    *)
(* every task a call starts is given one geometry parameter: dimensions if *)
(* the export_params passed in held it, else crsTransform if they held it, *)
(* else scale.                                                             *)
(***************************************************************************)
\* the geometry parameter that wins among those given
Preferred(given) ==
    IF "dimensions" \in given THEN "dimensions"
    ELSE IF "crsTransform" \in given THEN "crsTransform"
    ELSE "scale"

C19_GeometryParameters ==
    call.op = "exportImagery" =>
        /\ call.given \cap geom_args = {} =>
              /\ pc = "ready"
              /\ ret = Raised("ValueError")
              /\ export_tasks = <<>>
        /\ \A i \in DOMAIN export_tasks :
              /\ export_tasks[i].geometry \in call.given \cap geom_args
              /\ export_tasks[i].geometry = Preferred(call.given)
              /\ export_params.keys \cap geom_args = {export_tasks[i].geometry}

\* scale and crsTransform were given, without dimensions: the tasks run with
\* crsTransform
C19_Witness ==
    /\ call.op = "exportImagery"
    /\ pc = "monitor"
    /\ call.given \cap geom_args = {"scale", "crsTransform"}
    /\ Len(export_tasks) = 2
    /\ export_tasks[1].geometry = "crsTransform"
    /\ export_tasks[2].geometry = "crsTransform"
    /\ "scale" \notin export_params.keys

(***************************************************************************)
(* C20: in any sequence of exportImagery calls, the tasks of a call for    *)
(* which the caller named no folder export to the default folder made of   *)
(* the roi name and of that call's collection, resolved season and nested  *)
(* keys, also when the export_params dictionary was passed to a call       *)
(* before.                                                                 *)
(***************************************************************************)
\* the folder in use was not written by the caller
NoFolderNamed == export_params.folder # CallersFolder

C20_DefaultFolderOfEachCall ==
    (call.op = "exportImagery" /\ NoFolderNamed) =>
        \A i \in DOMAIN export_tasks :
           export_tasks[i].folder =
              DefaultFolder(roi_name, call.collection, ResolvedSeason, call.nested_keys)

(***************************************************************************)
(* C21: constructed from a configuration without imagery_filters, the      *)
(* interface has one season, named after the current year and spanning the *)
(* two weeks up to now, and under it every configured collection is a      *)
(* leaf: the baseline collection of that season, without further filters.  *)
(***************************************************************************)
\* the interface was built with the default imagery filters
Defaulted == pc = "ready" /\ imagery_filters = default_imagery_filters

C21_DefaultLoadsBaseline ==
    Defaulted =>
        /\ SeasonKeys(imagery_filters) = {now.year}
        /\ imagery_filters[1].date_end - imagery_filters[1].date_start = TwoWeeks
        /\ DOMAIN Canon.kids = {now.year}
        /\ \A c \in DOMAIN ee_collections :
              /\ HasPath(Canon, <<now.year, c>>)
              /\ NodeAt(Canon, <<now.year, c>>) = Leaf(base_coll(imagery_filters[1], c))

(***************************************************************************)
(* C22: the monitoring loop of exportImagery is not left while a task is   *)
(* PENDING or RUNNING; and from the moment on at which every task is       *)
(* COMPLETED, FAILED or CANCELLED (at once, when there are no tasks), the  *)
(* loop ends and exportImagery returns.                                    *)
(***************************************************************************)
AllFinished == \A i \in DOMAIN export_tasks : export_tasks[i].state \in Finished
ExportReturned == pc = "ready" /\ call.op = "exportImagery" /\ ret = ReturnedNone

C22_MonitoringEndsWhenTasksDo ==
    /\ [][(Monitoring /\ ~Monitoring') => (AllFinished /\ ExportReturned')]_vars
    /\ (Monitoring /\ AllFinished) ~> ExportReturned

\* no image, no task: the loop is about to be left after its first pass
C22_Witness ==
    /\ MonitoringEnds
    /\ export_tasks = <<>>
    /\ n_images = 0
    /\ last_update = "time.time()"

(***************************************************************************)
(* C23: export tasks exist only in the monitoring loop, and the loop is    *)
(* entered only by the step that follows an answer of yes (or the empty    *)
(* line) to the prompt, with the collection getImagery gave for a leaf of  *)
(* the tree and one task for each of its images; after an answer of no the *)
(* call returns without a task and without monitoring.                     *)
(***************************************************************************)
SaysYes == {"", "y", "ye", "yes"}
SaysNo == {"n", "no"}
\* what the call exports is made of the collection of the leaf it addresses
ExportsALeaf ==
    /\ Loaded
    /\ NodeAt(TopNode, Follow(TopNode, call.nested_keys)).leaf
    /\ Extends(export_collection, NodeAt(TopNode, Follow(TopNode, call.nested_keys)).coll)

C23_TasksOnlyAfterConfirmation ==
    /\ [](export_tasks # <<>> => Monitoring)
    /\ [][(~Monitoring /\ Monitoring') =>
             /\ pc = "answered"
             /\ choice \in SaysYes
             /\ ExportsALeaf
             /\ Len(export_tasks') = n_images]_vars
    /\ [][(pc = "answered" /\ choice \in SaysNo /\ pc' # "answered") =>
             /\ pc' = "ready"
             /\ ret' = ReturnedNone
             /\ export_tasks' = <<>>]_vars

\* the tasks of a confirmed export, as many as the collection has images, before the
\* first pass of the monitoring
C23_Witness ==
    /\ pc = "monitor"
    /\ ExportsALeaf
    /\ n_images = 2
    /\ Len(export_tasks) = 2
    /\ \A i \in DOMAIN export_tasks : export_tasks[i].state = "PENDING"
    /\ last_update = "exp_start-300"

(***************************************************************************)
(* C24: in a polling pass the completed count never exceeds the number of  *)
(* tasks polled so far that are COMPLETED, nor the failed count the number *)
(* of those that are FAILED or CANCELLED (a task polled while it was       *)
(* PENDING or RUNNING is in neither count, whatever became of it since);   *)
(* and at the end of a pass that found every task final, which is when the *)
(* progress report is made up, the two counts are exactly these numbers.   *)
(***************************************************************************)
\* the tasks polled in the pass under way
Polled == { i \in TaskIds : i < poll }
CompletedTasks == { i \in TaskIds : export_tasks[i + 1].state = "COMPLETED" }

C24_CountsMatchTaskStates ==
    pc = "polling" =>
        /\ n_completed <= Cardinality(Polled \cap CompletedTasks)
        /\ n_failed <= Cardinality(Polled \cap FailedTasks)
        /\ (poll = Len(export_tasks) /\ ~task_outstanding) =>
              /\ n_completed = Cardinality(CompletedTasks)
              /\ n_failed = Cardinality(FailedTasks)

(***************************************************************************)
(* The prompt with a user who answers: the export of SpecMonitor, where    *)
(* the code of user_confirms runs on (Confirms), the user types something  *)
(* whenever input() waits, and types a valid response sooner or later if   *)
(* input() waits again and again.                                          *)
(***************************************************************************)
ValidAnswers == { typed \in Answers : lower(typed) \in SaysYes \cup SaysNo }

UserResponds ==
    /\ WF_vars(\E typed \in Answers : UserAnswers(typed))
    /\ SF_vars(\E typed \in ValidAnswers : UserAnswers(typed))

SpecPrompt == InitExport /\ [][NextMonitor]_vars /\ LoopRuns /\ WF_vars(Confirms) /\ UserResponds

\* user_confirms has been called and has not returned
Prompting == pc \in {"confirm", "answered", "prompt_loop"}

(***************************************************************************)
(* C25: whenever user_confirms is waiting for the user's response, it      *)
(* eventually returns (the user giving a valid response sooner or later):  *)
(* an invalid response does not keep it in its loop for ever.              *)
(***************************************************************************)
C25_PromptEventuallyReturns == (pc = "confirm") ~> ~Prompting

=============================================================================
